---- MODULE Spec2Model ----
(***************************************************************************)
(* Membership activation of the cta-discord bot.                           *)
(*                                                                         *)
(* activateOrderForDiscordUser (src/unnamed/part_000) first looks the      *)
(* code up in the webinar ledger (a CSV file guarded by a lock file) and   *)
(* then in the WooCommerce order store (WooCommerceService in              *)
(* src/index.js).  Node runs one activation until its next await, so every *)
(* action below is the code between two awaits; several activations are in *)
(* flight at once.                                                         *)
(***************************************************************************)
EXTENDS Integers, Sequences, FiniteSets, TLC

\* ------------------------------------------------------------------ bounds
\* Activation requests per behaviour; request p runs in slot p.
MaxStarts == 2
\* Records in the order store.
NumOrders == 2
\* Page size of the order-store scan (per_page: 100 in the source), scaled
\* down so that a scan of NumOrders records spans several pages.
PerPage == 1
\* Daily expiry checks per behaviour.
MaxScans == 2
\* Days of the cron schedule, from the first day of Epoch on.
MaxDays == 93
\* The HTTP requests served in a run of the endpoint model.
MaxRequests == 2

Procs == 1..MaxStarts
Users == {"u1", "u2"}
Codes == {"c1", "c2"}

Absent == "absent"

\* ------------------------------------------------------------ order store
\* The representations of the is_old metadata value: key absent, boolean
\* true, and the strings.
IsOldValues == {Absent, "bool:true", "true", "True", "1", "false"}

Tag(u) == IF u = Absent THEN Absent ELSE u \o "#tag"

\* A product name is the sequence of its characters.  The names of the line
\* items the store holds:
Annual_LIFETIME_Bundle ==
    <<"A", "n", "n", "u", "a", "l", "-", "L", "I", "F", "E", "T", "I", "M",
      "E", "-", "B", "u", "n", "d", "l", "e">>
Lifetime_Plan ==
    <<"L", "i", "f", "e", "t", "i", "m", "e", " ", "P", "l", "a", "n">>
Membership_3_BULAN ==
    <<"M", "e", "m", "b", "e", "r", "s", "h", "i", "p", " ", "3", " ", "B",
      "U", "L", "A", "N">>
Paket_12_Bulan ==
    <<"P", "a", "k", "e", "t", " ", "1", "2", " ", "B", "u", "l", "a", "n">>
Member_1_Tahun ==
    <<"M", "e", "m", "b", "e", "r", " ", "1", " ", "T", "a", "h", "u", "n">>
Upgrade_3_Bulan_Ke_1_Tahun ==
    <<"U", "p", "g", "r", "a", "d", "e", " ", "3", " ", "B", "u", "l", "a",
      "n", " ", "k", "e", " ", "1", " ", "T", "a", "h", "u", "n">>
Life_Time_Pass ==
    <<"L", "i", "f", "e", " ", "T", "i", "m", "e", " ", "P", "a", "s", "s">>

Order(id, status, uuid, isOld, did, used, items) ==
    [id |-> id, status |-> status, activation_uuid |-> uuid, is_old |-> isOld,
     discord_id |-> did, discord_username |-> Tag(did),
     activation_used |-> used,
     activation_used_at |-> IF used = Absent THEN Absent ELSE "ts",
     line_items |-> items]

NoOrder == [id |-> "none"]

\* getOrdersTotal: the x-wp-total header of the store.
getOrdersTotal(store) == Len(store)

\* Math.max(1, Math.ceil(totalOrders / 100))
totalPages(total) ==
    LET c == (total + PerPage - 1) \div PerPage IN IF c < 1 THEN 1 ELSE c

\* api.get('orders', {per_page, page}): the records of one page, in order.
getPage(store, page) ==
    SubSeq(store, (page - 1) * PerPage + 1,
           IF page * PerPage < Len(store) THEN page * PerPage ELSE Len(store))

\* isOldValue of findOrderByUUID: the representations it compares against.
isOldValue(v) == v \in {"bool:true", "true", "True"}

\* claimed: the record has a discord_id or an activation_used key.
claimedIgnored(o) == FALSE
claimed(o) == o.discord_id # Absent \/ o.activation_used # Absent

\* The inner loop of findOrderByUUID over the records of one page:
\* [kind |-> "found", order |-> o], [kind |-> "stop"] (return null) or
\* [kind |-> "next"] (no record of the page carries the code).
RECURSIVE scanFrom(_, _, _)
scanFrom(orders, i, uuid) ==
    IF i > Len(orders) THEN [kind |-> "next"]
    ELSE LET o == orders[i] IN
         IF o.activation_uuid # uuid THEN scanFrom(orders, i + 1, uuid)
         ELSE IF isOldValue(o.is_old) THEN [kind |-> "stop"]
         ELSE IF claimed(o) THEN [kind |-> "stop"]
         ELSE [kind |-> "found", order |-> o]

scanPage(orders, uuid) == scanFrom(orders, 1, uuid)

\* findOrderByUUID run to completion on one store: the record found or NoOrder.
RECURSIVE findFromPage(_, _, _, _)
findFromPage(store, page, pages, uuid) ==
    IF page > pages THEN NoOrder
    ELSE LET r == scanPage(getPage(store, page), uuid) IN
         IF r.kind = "found" THEN r.order
         ELSE IF r.kind = "stop" THEN NoOrder
         ELSE findFromPage(store, page + 1, pages, uuid)

findOrderByUUID(store, uuid) ==
    findFromPage(store, 1, totalPages(getOrdersTotal(store)), uuid)

\* api.put(`orders/${orderId}`, {meta_data}) of updateOrderMemberData: the
\* store sets the four keys on the record, whatever they held before.
updateOrderMemberData(store, orderId, u) ==
    [i \in 1..Len(store) |->
        IF store[i].id = orderId
        THEN [store[i] EXCEPT !.activation_used = "1", !.activation_used_at = "ts",
                              !.discord_id = u, !.discord_username = Tag(u)]
        ELSE store[i]]

\* --------------------------------------------------------- webinar ledger
\* webinar_final.csv: a header line and one line per row.  The header is the
\* five columns of the ledger, so a line is its five values in that order.
WebinarLine(uuid, used, did) ==
    <<uuid, used, "mail", did, IF did = "" THEN "" ELSE Tag(did)>>

\* String.prototype.trim on the cell values the ledger holds: a cell may be
\* written with a blank after the comma.
trim(s) == IF s = " False" THEN "False" ELSE IF s = " True" THEN "True" ELSE s

\* readWebinarCsv: [] for a missing or empty file, else one object per line
\* keyed by the header names, every value trimmed.
readWebinarCsv(file) ==
    [i \in 1..Len(file) |->
        [activation_uuid |-> trim(file[i][1]), is_used |-> trim(file[i][2]),
         email |-> trim(file[i][3]), discord_id |-> trim(file[i][4]),
         discord_username |-> trim(file[i][5])]]

\* writeWebinarCsv: nothing for an empty list, else the whole file again.
writeWebinarCsvDropUsed(file, rows) ==
    LET keep == SelectSeq(rows, LAMBDA r : r.is_used # "True") IN
    [i \in 1..Len(keep) |->
        <<keep[i].activation_uuid, keep[i].is_used, keep[i].email,
          keep[i].discord_id, keep[i].discord_username>>]
writeWebinarCsv(file, rows) ==
    IF Len(rows) = 0 THEN file
    ELSE [i \in 1..Len(rows) |->
            <<rows[i].activation_uuid, rows[i].is_used, rows[i].email,
              rows[i].discord_id, rows[i].discord_username>>]

\* String(v).toLowerCase() on the values the ledger holds.
toLowerCase(s) == IF s \in {"True", "TRUE", "true"} THEN "true"
                  ELSE IF s \in {"False", "FALSE", "false"} THEN "false" ELSE s

\* String(webinarRow.is_used).toLowerCase() === 'true'
isUsedCaseSensitive(row) == row.is_used = "true"
isUsed(row) == toLowerCase(row.is_used) = "true"

\* webinarRows.find(r => r.activation_uuid === uuid): the index of the first
\* such row, 0 when there is none.
findWebinarRowNone(rows, uuid) == 0
findWebinarRow(rows, uuid) ==
    LET hits == {i \in 1..Len(rows) : rows[i].activation_uuid = uuid} IN
    IF hits = {} THEN 0 ELSE CHOOSE i \in hits : \A j \in hits : i <= j

\* webinarRow.is_used = 'True'; .discord_id = ...; .discord_username = ...
markWebinarRow(rows, i, u) ==
    [rows EXCEPT ![i] = [@ EXCEPT !.is_used = "True", !.discord_id = u,
                                  !.discord_username = Tag(u)]]

\* -------------------------------------------------------------- lock file
\* lock = 0: no lock file; lock = p: the file written by request p.
\* fs.writeFileSync(lockPath, pid, {flag: "wx"}) succeeds only when the file
\* does not exist.
wxCreateAlways(l) == TRUE
wxCreateNever(l) == FALSE
wxCreate(l) == l = 0

\* fs.unlinkSync(lockPath)
releaseLockKeepsFile(l) == l
releaseLock(l) == 0

\* ------------------------------------------------------------------ state
VARIABLES
    orders,       \* the order store: the records in scan order
    csv,          \* the lines of webinar_final.csv below its header
    lock,         \* webinar_final.csv.lock
    roles,        \* the roles each user holds in the guild
    env,          \* which of MEMBER_ROLE_ID, LIFETIME_ROLE_ID are configured
    pc,           \* where each activation request stands
    user,         \* discordUser.id of each request
    uuid,         \* the code each request submitted
    webinarRows,  \* the rows a request read from the ledger
    found,        \* what findOrderByUUID returned to a request
    page,         \* the page a request's scan fetches next
    pages,        \* totalPages of a request's scan
    result,       \* the result object of a request
    atStart,      \* what held of a request's code when the request began
    grants,       \* <<request, code, user, role>> for every role added
    writes,       \* <<request, what>> for every ledger or store write
    consulted,    \* the requests that queried the order store
    critical,     \* <<caller, title>> for every logCritical call
    outcomes,     \* the results returned so far
    today,        \* the day of the latest expiry check (0: none has run)
    xpc,          \* where the expiry check stands
    expiringOrders, \* the records findOrdersExpiringOn returned to it
    idx,          \* the record of expiringOrders the loop is at
    activeOrder,  \* what findActiveOrderByDiscordId returned for that record
    removal,      \* what removeMember returned for that record
    xlog,         \* what the expiry checks did, in order
    xresult,      \* what the latest runExpiryCheck returned
    tz,           \* TZ_OFFSET_HOURS and the zone of the server clock, in hours
    clock,        \* Date.now(), in hours since the first day of Epoch, 00:00 UTC
    fired,        \* the cron firings so far: job, instant and target date
    rpc,          \* where the expiry reminder stands
    expiringTomorrow, \* the records findOrdersExpiringOn returned to it
    ridx,         \* the record of expiringTomorrow its loop is at
    rlog,         \* what the latest reminder run did, in order
    rresult,      \* what the latest runExpiryReminder returned
    secret,       \* DISCORD_API_SECRET
    api,          \* the HTTP request being served
    response,     \* the latest HTTP response
    served,       \* the number of HTTP requests received
    auditChannel, \* the activation log channel: unset, not fetchable, or text
    audits,       \* the attempts sent to the activation log channel
    sinks,        \* whether the bot log file is writable; the admin channel
    botlog,       \* the lines written to the bot log file
    console,      \* what was reported on console.error
    alerts,       \* the alerts delivered to the admin channel
    logpc         \* where the caller of a logging function stands

\* The state of the expiry check, and the state only activation touches.
expiryVars == <<today, xpc, expiringOrders, idx, activeOrder, removal, xlog,
                xresult>>
activationVars == <<csv, lock, pc, user, uuid, webinarRows, found, page, pages,
                    result, atStart, grants, writes, consulted, outcomes>>
\* The clock and the cron schedule.
cronVars == <<tz, clock, fired>>
\* The expiry reminder, the HTTP endpoints, the attempt log of activations,
\* and the logging functions.
reminderVars == <<rpc, expiringTomorrow, ridx, rlog, rresult>>
apiVars == <<secret, api, response, served>>
auditVars == <<auditChannel, audits>>
logVars == <<sinks, botlog, console, alerts, logpc>>
\* The state neither an activation nor an expiry check touches.
serviceVars == <<cronVars, reminderVars, apiVars, auditVars, logVars>>

vars == <<orders, csv, lock, roles, env, pc, user, uuid, webinarRows, found,
          page, pages, result, atStart, grants, writes, consulted, critical,
          outcomes, today, xpc, expiringOrders, idx, activeOrder, removal, xlog,
          xresult, tz, clock, fired, rpc, expiringTomorrow, ridx, rlog, rresult,
          secret, api, response, served, auditChannel, audits, sinks, botlog,
          console, alerts, logpc>>

NoResult == [success |-> FALSE, code |-> "UNKNOWN", orderId |-> "null"]
\* The result object with NOT_FOUND in the place of OK.
ResultNotFound(ok, code, orderId) ==
    [success |-> ok, code |-> IF code = "OK" THEN "NOT_FOUND" ELSE code,
     orderId |-> orderId]
Result(ok, code, orderId) == [success |-> ok, code |-> code, orderId |-> orderId]

\* The stores a behaviour may start from: NumOrders records, record i with
\* id i, each one of the kinds below: c2 claimable (record 1 with a lifetime
\* product as its second line item, the others without), c1 claimable in
\* another status, c2 claimed by u0, an identity that sends no request.
OrderKinds(id) ==
    { Order(id, "completed", "c2", Absent, Absent, Absent,
            IF id = "1" THEN <<Membership_3_BULAN, Annual_LIFETIME_Bundle>>
            ELSE <<Life_Time_Pass>>),
      Order(id, "processing", "c1", "false", Absent, Absent, <<Member_1_Tahun>>),
      Order(id, "completed", "c2", Absent, "u0", "1", <<Paket_12_Bulan>>) }

Stores == { s \in [1..NumOrders -> UNION {OrderKinds(ToString(i)) : i \in 1..NumOrders}] :
                \A i \in 1..NumOrders : s[i].id = ToString(i) }

\* The ledgers a behaviour may start from; every row has its own code.  c1
\* is a webinar code (and may be an order code as well).  In the first c2 is
\* not a webinar code and the row of c3 was typed with a blank before its
\* is_used value; in the second the row of c2 is used.
Ledgers ==
    { <<WebinarLine("c1", "False", ""), WebinarLine("c3", " False", "")>>,
      <<WebinarLine("c2", "true", "u0"), WebinarLine("c1", "False", "")>> }

Envs == { [member |-> TRUE, lifetime |-> TRUE],
          [member |-> TRUE, lifetime |-> FALSE],
          [member |-> FALSE, lifetime |-> TRUE] }

NothingAtStart == [afterOK |-> FALSE, rowUsed |-> FALSE, both |-> FALSE]

NoRemoval == [success |-> FALSE, error |-> "none", roleRemoved |-> FALSE]

\* What runExpiryCheck and runExpiryReminder return: nothing yet, undefined
\* (a bare `return`), {success: true, count} or {success: false, error}.
Pending == [kind |-> "pending"]
Undefined == [kind |-> "undefined"]
Success(count) == [kind |-> "result", success |-> TRUE, count |-> count]
Failure(error) == [kind |-> "result", success |-> FALSE, error |-> error]

\* No expiry check has run.
ExpiryInit ==
    /\ today = 0
    /\ xpc = "idle"
    /\ expiringOrders = <<>>
    /\ idx = 0
    /\ activeOrder = NoOrder
    /\ removal = NoRemoval
    /\ xlog = <<>>
    /\ xresult = Pending

\* The default TZ_OFFSET_HOURS ('7') on a server that keeps UTC; no cron job
\* has fired.
CronInit ==
    /\ tz = [offset |-> 7, zone |-> 0]
    /\ clock = 0
    /\ fired = <<>>

\* No reminder has run.
ReminderInit ==
    /\ rpc = "idle"
    /\ expiringTomorrow = <<>>
    /\ ridx = 0
    /\ rlog = <<>>
    /\ rresult = Pending

NoRequest == [endpoint |-> "none"]

\* The shared secret is configured and no request has arrived.
ApiInit ==
    /\ secret = "s3cret"
    /\ api = NoRequest
    /\ response = NoRequest
    /\ served = 0

\* ACTIVATION_LOG_CHANNEL_ID names a text channel.
AuditInit ==
    /\ auditChannel = "text"
    /\ audits = {}

\* The bot log file is writable and ADMIN_LOG_CHANNEL_ID names a text channel.
LogInit ==
    /\ sinks = [file |-> TRUE, channel |-> "text"]
    /\ botlog = {}
    /\ console = {}
    /\ alerts = {}
    /\ logpc = [at |-> "idle", title |-> "none"]

ServiceInit == CronInit /\ ReminderInit /\ ApiInit /\ AuditInit /\ LogInit

ProcInit ==
    /\ lock = 0
    /\ roles = [u \in Users |-> {}]
    /\ pc = [p \in Procs |-> "idle"]
    /\ user = [p \in Procs |-> "u1"]
    /\ uuid = [p \in Procs |-> "c1"]
    /\ webinarRows = [p \in Procs |-> <<>>]
    /\ found = [p \in Procs |-> NoOrder]
    /\ page = [p \in Procs |-> 0]
    /\ pages = [p \in Procs |-> 0]
    /\ result = [p \in Procs |-> NoResult]
    /\ atStart = [p \in Procs |-> NothingAtStart]
    /\ grants = {}
    /\ writes = {}
    /\ consulted = {}
    /\ critical = {}
    /\ outcomes = {}
    /\ ExpiryInit
    /\ ServiceInit

Init ==
    /\ orders \in Stores
    /\ csv \in Ledgers
    /\ env \in Envs
    /\ ProcInit

\* ------------------------------------------------- activateOrderForDiscordUser
\* The codes for which an order-store activation has returned OK.
OkOrderCodes ==
    { o.uuid : o \in { x \in outcomes : x.code = "OK" /\ x.orderId # "WEBINAR" } }

\* What the claims call a row of the ledger (the cells of a line, blanks
\* aside), a used row, a retired record and a claimable record.
Cells(line) == [j \in 1..Len(line) |-> trim(line[j])]
UsedRow(line) == Cells(line)[2] \in {"True", "true"}
Retired(o) == o.is_old \in {"bool:true", "true", "True", "1"}
Claimable(o) ==
    ~Retired(o) /\ o.discord_id = Absent /\ o.activation_used = Absent

\* The first record in scan order that carries code c, 0 when there is none.
FirstMatch(store, c) ==
    LET hits == {i \in 1..Len(store) : store[i].activation_uuid = c} IN
    IF hits = {} THEN 0 ELSE CHOOSE i \in hits : \A j \in hits : i <= j

\* What holds of code c when a request for it begins: an order-store
\* activation has returned OK for c; the ledger row of c is used; c has an
\* unused ledger row and a claimable order-store record.
AtStart(c) ==
    LET m == FirstMatch(orders, c) IN
    [afterOK |-> c \in OkOrderCodes,
     rowUsed |-> \E i \in 1..Len(csv) : csv[i][1] = c /\ UsedRow(csv[i]),
     both |-> /\ \E i \in 1..Len(csv) : csv[i][1] = c /\ ~UsedRow(csv[i])
              /\ m # 0
              /\ Claimable(orders[IF m = 0 THEN 1 ELSE m])]

\* The identities a request may come from.  u1 and u2 are interchangeable in
\* every initial state, so the first request is taken to be u1's.
Callers(p) == IF p = 1 THEN {"u1"} ELSE Users

\* A request arrives: activateOrderForDiscordUser(c, u) runs up to
\* `await acquireLock(...)`.  Requests take the slots in order, and at most
\* two of them are in flight at a time.
Start(p, u, c) ==
    /\ u \in Callers(p)
    /\ pc[p] = "idle"
    /\ \A q \in Procs : q < p => pc[q] # "idle"
    /\ \A q \in Procs : q < p - 1 => pc[q] = "done"
    /\ pc' = [pc EXCEPT ![p] = "acquire"]
    /\ user' = [user EXCEPT ![p] = u]
    /\ uuid' = [uuid EXCEPT ![p] = c]
    /\ atStart' = [atStart EXCEPT ![p] = AtStart(c)]
    /\ UNCHANGED <<orders, csv, lock, roles, env, webinarRows, found, page,
                   pages, result, grants, writes, consulted, critical, outcomes>>
    /\ UNCHANGED expiryVars
    /\ UNCHANGED serviceVars

\* Control reaches the finally block with the result as it was.
ReturnUnset(p, res) ==
    /\ result' = result
    /\ pc' = [pc EXCEPT ![p] = "audit"]

\* The result is set and control is in the finally block of the function.
Return(p, res) ==
    /\ result' = [result EXCEPT ![p] = res]
    /\ pc' = [pc EXCEPT ![p] = "audit"]

\* The finally of the webinar section: releaseLock; webinarRows goes out of
\* scope.
LeaveSection(p) ==
    /\ lock' = releaseLock(lock)
    /\ webinarRows' = [webinarRows EXCEPT ![p] = <<>>]

\* acquireLock creates the lock file, and the code runs on without a pause
\* through lines 152-166: read the ledger, find the row, test is_used.  With
\* no row the finally releases the lock and findOrderByUUID is called.
AcquireLock(p) ==
    /\ pc[p] = "acquire"
    /\ wxCreate(lock)
    /\ LET rows == readWebinarCsv(csv)
           i == findWebinarRow(rows, uuid[p]) IN
       \/ /\ i = 0
          /\ lock' = releaseLock(p)
          /\ pc' = [pc EXCEPT ![p] = "find_total"]
          /\ UNCHANGED <<result, webinarRows>>
       \/ /\ i # 0 /\ isUsed(rows[i])
          /\ lock' = releaseLock(p)
          /\ Return(p, Result(FALSE, "ALREADY_USED", "WEBINAR"))
          /\ UNCHANGED webinarRows
       \/ /\ i # 0 /\ ~isUsed(rows[i])
          /\ lock' = p
          /\ webinarRows' = [webinarRows EXCEPT ![p] = rows]
          /\ pc' = [pc EXCEPT ![p] = "w_member"]
          /\ UNCHANGED result
    /\ UNCHANGED <<orders, csv, roles, env, user, uuid, found, page, pages,
                   atStart, grants, writes, consulted, critical, outcomes>>
    /\ UNCHANGED expiryVars
    /\ UNCHANGED serviceVars

\* acquireLock: the file of another request stayed there for LOCK_TIMEOUT_MS;
\* "CSV lock timeout" is thrown outside the inner try, so nothing is released.
AcquireTimeout(p) ==
    /\ pc[p] = "acquire"
    /\ ~wxCreate(lock)
    /\ Return(p, Result(FALSE, "ERROR", "null"))
    /\ UNCHANGED <<orders, csv, lock, roles, env, user, uuid, webinarRows,
                   found, page, pages, atStart, grants, writes, consulted,
                   critical, outcomes>>
    /\ UNCHANGED expiryVars
    /\ UNCHANGED serviceVars

\* Lines 168-180: client.guilds.fetch(GUILD_ID) resolves or throws;
\* guild.members.fetch(id).catch(() => null); the role configuration test.
WebinarMemberFetch(p) ==
    /\ pc[p] = "w_member"
    /\ \/ /\ LeaveSection(p)
          /\ Return(p, Result(FALSE, "ERROR", "null"))
       \/ \E inGuild \in BOOLEAN :
            \/ /\ ~inGuild
               /\ LeaveSection(p)
               /\ Return(p, Result(FALSE, "NOT_IN_GUILD", "WEBINAR"))
            \/ /\ inGuild /\ ~(env.member /\ env.lifetime)
               /\ LeaveSection(p)
               /\ Return(p, Result(FALSE, "NO_ROLE_CONFIG", "WEBINAR"))
            \/ /\ inGuild /\ env.member /\ env.lifetime
               /\ pc' = [pc EXCEPT ![p] = "w_add_member"]
               /\ UNCHANGED <<lock, result, webinarRows>>
    /\ UNCHANGED <<orders, csv, roles, env, user, uuid, found, page, pages,
                   atStart, grants, writes, consulted, critical, outcomes>>
    /\ UNCHANGED expiryVars
    /\ UNCHANGED serviceVars

AddRole(p, role) ==
    /\ roles' = [roles EXCEPT ![user[p]] = @ \cup {role}]
    /\ grants' = grants \cup {<<p, uuid[p], user[p], role>>}

\* member.roles.add(memberRoleId) in the webinar section.
WebinarAddMember(p) ==
    /\ pc[p] = "w_add_member"
    /\ \/ /\ AddRole(p, "member")
          /\ pc' = [pc EXCEPT ![p] = "w_add_lifetime"]
          /\ UNCHANGED <<lock, result, webinarRows>>
       \/ /\ LeaveSection(p)
          /\ Return(p, Result(FALSE, "ERROR", "null"))
          /\ UNCHANGED <<roles, grants>>
    /\ UNCHANGED <<orders, csv, env, user, uuid, found, page, pages, atStart,
                   writes, consulted, critical, outcomes>>
    /\ UNCHANGED expiryVars
    /\ UNCHANGED serviceVars

\* member.roles.add(lifetimeRoleId), then lines 185-197: mark the row, write
\* the ledger back, return OK; the finally releases the lock.
WebinarAddLifetime(p) ==
    /\ pc[p] = "w_add_lifetime"
    /\ LeaveSection(p)
    /\ \/ /\ AddRole(p, "lifetime")
          /\ LET i == findWebinarRow(webinarRows[p], uuid[p])
                 rows == markWebinarRow(webinarRows[p], i, user[p]) IN
             \/ /\ csv' = writeWebinarCsv(csv, rows)
                /\ writes' = writes \cup {<<p, "csv">>}
                /\ Return(p, Result(TRUE, "OK", "WEBINAR"))
             \/ /\ Return(p, Result(FALSE, "ERROR", "null"))
                /\ UNCHANGED <<csv, writes>>
       \/ /\ Return(p, Result(FALSE, "ERROR", "null"))
          /\ UNCHANGED <<roles, grants, csv, writes>>
    /\ UNCHANGED <<orders, env, user, uuid, found, page, pages, atStart,
                   consulted, critical, outcomes>>
    /\ UNCHANGED expiryVars
    /\ UNCHANGED serviceVars

\* findOrderByUUID up to its first page: getOrdersTotal resolves or throws.
FindTotal(p) ==
    /\ pc[p] = "find_total"
    /\ consulted' = consulted \cup {p}
    /\ \/ /\ pages' = [pages EXCEPT ![p] = totalPages(getOrdersTotal(orders))]
          /\ page' = [page EXCEPT ![p] = 1]
          /\ pc' = [pc EXCEPT ![p] = "find_page"]
          /\ UNCHANGED result
       \/ /\ Return(p, Result(FALSE, "ERROR", "null"))
          /\ UNCHANGED <<page, pages>>
    /\ UNCHANGED <<orders, csv, lock, roles, env, user, uuid, webinarRows,
                   found, atStart, grants, writes, critical, outcomes>>
    /\ UNCHANGED expiryVars
    /\ UNCHANGED serviceVars

\* One turn of the page loop of findOrderByUUID: fetch the page and scan it.
FindPage(p) ==
    /\ pc[p] = "find_page"
    /\ \/ LET r == scanPage(getPage(orders, page[p]), uuid[p]) IN
          \/ /\ r.kind = "found"
             /\ found' = [found EXCEPT ![p] = r.order]
             /\ pc' = [pc EXCEPT ![p] = "o_member"]
             /\ page' = [page EXCEPT ![p] = 0]
             /\ pages' = [pages EXCEPT ![p] = 0]
             /\ UNCHANGED result
          \/ /\ r.kind = "stop" \/ (r.kind = "next" /\ page[p] >= pages[p])
             /\ Return(p, Result(FALSE, "NOT_FOUND", "null"))
             /\ page' = [page EXCEPT ![p] = 0]
             /\ pages' = [pages EXCEPT ![p] = 0]
             /\ UNCHANGED found
          \/ /\ r.kind = "next" /\ page[p] < pages[p]
             /\ page' = [page EXCEPT ![p] = @ + 1]
             /\ UNCHANGED <<pc, pages, found, result>>
       \/ /\ Return(p, Result(FALSE, "ERROR", "null"))
          /\ page' = [page EXCEPT ![p] = 0]
          /\ pages' = [pages EXCEPT ![p] = 0]
          /\ UNCHANGED found
    /\ UNCHANGED <<orders, csv, lock, roles, env, user, uuid, webinarRows,
                   atStart, grants, writes, consulted, critical, outcomes>>
    /\ UNCHANGED expiryVars
    /\ UNCHANGED serviceVars

\* Lines 212-223: client.guilds.fetch(GUILD_ID) resolves or throws;
\* guild.members.fetch(id).catch(() => null); the MEMBER_ROLE_ID test.
OrderMemberFetch(p) ==
    /\ pc[p] = "o_member"
    /\ \/ /\ Return(p, Result(FALSE, "ERROR", "null"))
          /\ found' = [found EXCEPT ![p] = NoOrder]
       \/ \E inGuild \in BOOLEAN :
            \/ /\ ~inGuild
               /\ Return(p, Result(FALSE, "NOT_IN_GUILD", "null"))
               /\ found' = [found EXCEPT ![p] = NoOrder]
            \/ /\ inGuild /\ ~env.member
               /\ Return(p, Result(FALSE, "NO_ROLE_CONFIG", "null"))
               /\ found' = [found EXCEPT ![p] = NoOrder]
            \/ /\ inGuild /\ env.member
               /\ pc' = [pc EXCEPT ![p] = "o_add_member"]
               /\ UNCHANGED <<result, found>>
    /\ UNCHANGED <<orders, csv, lock, roles, env, user, uuid, webinarRows,
                   page, pages, atStart, grants, writes, consulted, critical,
                   outcomes>>
    /\ UNCHANGED expiryVars
    /\ UNCHANGED serviceVars

\* String.prototype.toLowerCase and String.prototype.includes on a name.
UpperCase == <<"A", "B", "C", "D", "E", "F", "G", "H", "I", "J", "K", "L", "M",
               "N", "O", "P", "Q", "R", "S", "T", "U", "V", "W", "X", "Y", "Z">>
LowerCase == <<"a", "b", "c", "d", "e", "f", "g", "h", "i", "j", "k", "l", "m",
               "n", "o", "p", "q", "r", "s", "t", "u", "v", "w", "x", "y", "z">>

\* toLowerCase left out.
keepCase(name) == name

toLowerCaseChars(name) ==
    [k \in 1..Len(name) |->
        IF \E a \in 1..26 : UpperCase[a] = name[k]
        THEN LowerCase[CHOOSE a \in 1..26 : UpperCase[a] = name[k]]
        ELSE name[k]]

includes(name, part) ==
    \E k \in 1..Len(name) :
        /\ k + Len(part) - 1 <= Len(name)
        /\ SubSeq(name, k, k + Len(part) - 1) = part

\* /lifetime/i.test(name)
lifetimeTestCaseSensitive(name) ==
    includes(name, <<"l", "i", "f", "e", "t", "i", "m", "e">>)
lifetimeTest(name) ==
    includes(toLowerCaseChars(name), <<"l", "i", "f", "e", "t", "i", "m", "e">>)

\* hasLifetimeProduct: some line item name matches /lifetime/i.
hasLifetimeProduct(o) ==
    \E k \in 1..Len(o.line_items) : lifetimeTest(o.line_items[k])

\* member.roles.add(roleId) in the order section; then the lifetime role is
\* added when the order has a lifetime product and LIFETIME_ROLE_ID is set.
OrderAddMember(p) ==
    /\ pc[p] = "o_add_member"
    /\ \/ /\ AddRole(p, "member")
          /\ pc' = [pc EXCEPT ![p] =
                      IF hasLifetimeProduct(found[p]) /\ env.lifetime
                      THEN "o_add_lifetime" ELSE "o_update"]
          /\ UNCHANGED <<result, found>>
       \/ /\ Return(p, Result(FALSE, "ERROR", "null"))
          /\ found' = [found EXCEPT ![p] = NoOrder]
          /\ UNCHANGED <<roles, grants>>
    /\ UNCHANGED <<orders, csv, lock, env, user, uuid, webinarRows, page,
                   pages, atStart, writes, consulted, critical, outcomes>>
    /\ UNCHANGED expiryVars
    /\ UNCHANGED serviceVars

\* member.roles.add(lifetimeRoleId): a failure is logged and swallowed.
OrderAddLifetime(p) ==
    /\ pc[p] = "o_add_lifetime"
    /\ \/ AddRole(p, "lifetime")
       \/ UNCHANGED <<roles, grants>>
    /\ pc' = [pc EXCEPT ![p] = "o_update"]
    /\ UNCHANGED <<orders, csv, lock, env, user, uuid, webinarRows, found,
                   page, pages, result, atStart, writes, consulted, critical,
                   outcomes>>
    /\ UNCHANGED expiryVars
    /\ UNCHANGED serviceVars

\* logCritical(title, details): the alert is appended to the bot log as
\* CRITICAL and sent to the admin channel; it never throws.
logCriticalDropped(log, who, title) == log
logCriticalOnce(log, who, title) == IF log = {} THEN {<<who, title>>} ELSE log
logCritical(log, who, title) == log \cup {<<who, title>>}

\* The caller named in the alert of a request.
CallerOf(p) == <<p, "activation">>

\* updateOrderMemberData resolves (OK) or throws (logCritical, then
\* WC_UPDATE_FAILED).
OrderUpdate(p) ==
    /\ pc[p] = "o_update"
    /\ \/ /\ orders' = updateOrderMemberData(orders, found[p].id, user[p])
          /\ writes' = writes \cup {<<p, "order">>}
          /\ Return(p, Result(TRUE, "OK", found[p].id))
          /\ UNCHANGED critical
       \/ /\ critical' = logCritical(critical, CallerOf(p), "Activation WC Update Failed")
          /\ Return(p, Result(FALSE, "WC_UPDATE_FAILED", found[p].id))
          /\ UNCHANGED <<orders, writes>>
    /\ found' = [found EXCEPT ![p] = NoOrder]
    /\ UNCHANGED <<csv, lock, roles, env, user, uuid, webinarRows, page,
                   pages, atStart, grants, consulted, outcomes>>
    /\ UNCHANGED expiryVars
    /\ UNCHANGED serviceVars

\* The embed of lines 269-279: the attempt (user, code) and the result.
attemptRecordUnknown(p) ==
    [request |-> p, user |-> user[p], uuid |-> uuid[p], code |-> "UNKNOWN"]
attemptRecord(p) ==
    [request |-> p, user |-> user[p], uuid |-> uuid[p], code |-> result[p].code]

\* The finally block: with ACTIVATION_LOG_CHANNEL_ID set and the channel
\* fetched as a text channel the attempt is sent to it (a send that fails,
\* the channel "throws", is swallowed); then the result is returned.
Audit(p) ==
    /\ pc[p] = "audit"
    /\ audits' = IF auditChannel = "text" THEN audits \cup {attemptRecord(p)}
                 ELSE audits
    /\ outcomes' = outcomes \cup {[request |-> p, user |-> user[p],
                                    uuid |-> uuid[p], code |-> result[p].code,
                                    orderId |-> result[p].orderId]}
    /\ pc' = [pc EXCEPT ![p] = "done"]
    /\ UNCHANGED <<orders, csv, lock, roles, env, user, uuid, webinarRows,
                   found, page, pages, result, atStart, grants, writes,
                   consulted, critical>>
    /\ UNCHANGED expiryVars
    /\ UNCHANGED <<cronVars, reminderVars, apiVars, logVars, auditChannel>>

Next ==
    \/ \E p \in Procs, u \in Users, c \in Codes : Start(p, u, c)
    \/ \E p \in Procs :
         \/ AcquireLock(p)
         \/ AcquireTimeout(p)
         \/ WebinarMemberFetch(p)
         \/ WebinarAddMember(p)
         \/ WebinarAddLifetime(p)
         \/ FindTotal(p)
         \/ FindPage(p)
         \/ OrderMemberFetch(p)
         \/ OrderAddMember(p)
         \/ OrderAddLifetime(p)
         \/ OrderUpdate(p)
         \/ Audit(p)

Spec == Init /\ [][Next]_vars

\* ----------------------------------------------------------------- claims
GrantsBy(p) == { g \in grants : g[1] = p }
WritesBy(p) == { w \in writes : w[1] = p }

\* The positions between a successful acquireLock and the releaseLock of the
\* finally block.
SectionPcs == {"w_member", "w_add_member", "w_add_lifetime"}
\* The positions at which a claim target has been resolved.
TargetPcs == {"w_member", "w_add_member", "w_add_lifetime",
              "o_member", "o_add_member", "o_add_lifetime", "o_update"}
Returned(p) == pc[p] = "done"

\* C1 as stated: a request that began after an order-store activation
\* returned OK for its code returns NOT_FOUND, having granted no role and
\* written no record.
C1_LaterActivationReturnsNotFound ==
    \A p \in Procs :
        (atStart[p].afterOK /\ Returned(p)) =>
            /\ result[p].code = "NOT_FOUND"
            /\ GrantsBy(p) = {}
            /\ WritesBy(p) = {}

\* C1 amended: such a request never resolves a claim target, grants no role
\* and writes no record, and it returns NOT_FOUND, or ERROR when the lock or
\* the store query failed.
C1_LaterActivationNeverClaims ==
    \A p \in Procs :
        atStart[p].afterOK =>
            /\ pc[p] \notin TargetPcs
            /\ GrantsBy(p) = {}
            /\ WritesBy(p) = {}
            /\ pc[p] \in {"audit", "done"} => result[p].code \in {"NOT_FOUND", "ERROR"}

C1_Witness ==
    \E p \in Procs :
        /\ atStart[p].afterOK /\ Returned(p)
        /\ result[p].code = "NOT_FOUND"
        /\ \E o \in outcomes : o.code = "OK" /\ o.uuid = uuid[p] /\ o.user # user[p]

\* C2: a step never changes a discord_id that is set to another identity.
C2_DiscordIdNeverOverwritten ==
    [][\A i \in 1..Len(orders) :
          orders[i].discord_id # Absent =>
              orders'[i].discord_id = orders[i].discord_id]_vars

\* C3: the roles added on behalf of one code all went to one identity.
C3_OneIdentityPerCode ==
    \A c \in Codes : Cardinality({ g[3] : g \in { h \in grants : h[2] = c } }) <= 1

\* C4: a request inside the webinar section owns the lock file (so there is
\* at most one), the ledger is read and written only by the request that owns
\* it, and no two requests returned OK for one webinar code.
C4_LockSerializesWebinarSection ==
    /\ [](\A p \in Procs : pc[p] \in SectionPcs => lock = p)
    /\ [](\A o1, o2 \in outcomes :
             (o1.code = "OK" /\ o2.code = "OK" /\ o1.orderId = "WEBINAR"
              /\ o2.orderId = "WEBINAR" /\ o1.uuid = o2.uuid) => o1 = o2)
    /\ [][/\ csv' # csv => \E p \in Procs : lock = p /\ pc[p] \in SectionPcs
          /\ \A p \in Procs :
                (webinarRows'[p] # webinarRows[p] /\ webinarRows'[p] # <<>>) =>
                    lock = 0 /\ lock' = p /\ pc'[p] \in SectionPcs]_vars

C4_Witness ==
    \E p, q \in Procs :
        /\ p # q /\ uuid[p] = uuid[q]
        /\ Returned(p) /\ result[p].code = "OK" /\ result[p].orderId = "WEBINAR"
        /\ Returned(q) /\ result[q].code = "ALREADY_USED"
        /\ ~atStart[q].rowUsed

\* C5 as stated: a request that began when the row of its code was used
\* returns ALREADY_USED, having granted no role, written nothing and not
\* queried the order store.
C5_UsedRowReturnsAlreadyUsed ==
    \A p \in Procs :
        (atStart[p].rowUsed /\ Returned(p)) =>
            /\ result[p].code = "ALREADY_USED"
            /\ GrantsBy(p) = {} /\ WritesBy(p) = {} /\ p \notin consulted

\* C5 amended: such a request grants no role, writes nothing and never
\* queries the order store; once it holds the lock it returns ALREADY_USED,
\* and it returns ERROR only when it did not get the lock.
C5_UsedRowNeverClaims ==
    \A p \in Procs :
        atStart[p].rowUsed =>
            /\ GrantsBy(p) = {} /\ WritesBy(p) = {} /\ p \notin consulted
            /\ pc[p] \in {"idle", "acquire", "audit", "done"}
            /\ pc[p] \in {"audit", "done"} =>
                  result[p] \in { Result(FALSE, "ALREADY_USED", "WEBINAR"),
                                  Result(FALSE, "ERROR", "null") }

C5_Witness ==
    \E p \in Procs :
        /\ atStart[p].rowUsed /\ Returned(p)
        /\ result[p].code = "ALREADY_USED"
        /\ \E o \in outcomes : o.code = "OK" /\ o.uuid = uuid[p] /\ o.request # p

\* C6: in every step is_used of a row goes from unused to used at most, no
\* row disappears, and a row that changes carries the code of the request
\* that owns the lock.
C6_LedgerRowsMonotone ==
    [][/\ Len(csv') >= Len(csv)
       /\ \A i \in 1..Len(csv) :
            /\ UsedRow(csv[i]) => UsedRow(csv'[i])
            /\ Cells(csv'[i]) # Cells(csv[i]) =>
                 /\ ~UsedRow(csv[i]) /\ UsedRow(csv'[i])
                 /\ \E p \in Procs : lock = p /\ csv[i][1] = uuid[p]
                                     /\ csv'[i][1] = uuid[p]]_vars

C6_Witness ==
    /\ Len(csv) = 2
    /\ \E i, j \in 1..Len(csv) :
          /\ i # j
          /\ csv[i][2] = "True" /\ csv[i][4] \in Users
          /\ csv[j][2] = "False"
          /\ \E o \in outcomes : o.code = "OK" /\ o.orderId = "WEBINAR"
                                 /\ o.uuid = csv[i][1] /\ o.user = csv[i][4]

\* C9 as stated: a request whose code had an unused ledger row and a
\* claimable order returns OK for the webinar row with both roles granted,
\* and the order is as it was.
C9_WebinarRowClaimedFirst ==
    \A p \in Procs :
        (atStart[p].both /\ Returned(p)) =>
            /\ result[p] = Result(TRUE, "OK", "WEBINAR")
            /\ {g[4] : g \in GrantsBy(p)} = {"member", "lifetime"}
            /\ WritesBy(p) = {<<p, "csv">>}

\* C9 amended: such a request never queries or writes the order store; when
\* it returns OK it is for the webinar row, with both roles granted and the
\* row bound to the caller.
C9_WebinarTakesPrecedence ==
    \A p \in Procs :
        atStart[p].both =>
            /\ p \notin consulted
            /\ <<p, "order">> \notin writes
            /\ pc[p] \in {"idle", "acquire", "audit", "done"} \cup SectionPcs
            /\ (pc[p] \in {"audit", "done"} /\ result[p].code = "OK") =>
                  /\ result[p].orderId = "WEBINAR"
                  /\ {g[4] : g \in GrantsBy(p)} = {"member", "lifetime"}
                  /\ {"member", "lifetime"} \subseteq roles[user[p]]
                  /\ \E i \in 1..Len(csv) :
                        csv[i][1] = uuid[p] /\ UsedRow(csv[i]) /\ csv[i][4] = user[p]
            /\ pc[p] \in {"audit", "done"} =>
                  result[p].code \in {"OK", "ALREADY_USED", "NOT_IN_GUILD",
                                      "NO_ROLE_CONFIG", "ERROR"}

C9_Witness ==
    \E p \in Procs :
        /\ atStart[p].both /\ Returned(p)
        /\ result[p] = Result(TRUE, "OK", "WEBINAR")
        /\ Claimable(orders[FirstMatch(orders, uuid[p])])

\* C10: a request outside the webinar section does not own the lock file.
C10_LockReleasedOnEveryExit ==
    \A p \in Procs : pc[p] \notin SectionPcs => lock # p

C10_Witness ==
    \E p, q \in Procs :
        /\ Returned(p) /\ result[p].code = "ERROR"
        /\ GrantsBy(p) = {<<p, uuid[p], user[p], "member">>}
        /\ p \notin consulted
        /\ pc[q] = "find_total" /\ lock = 0

\* C11: a request leaves acquireLock by the timeout only while the lock file
\* of another party is there; it then returns ERROR having granted no role,
\* read no ledger, written nothing and queried no store, the lock file, the
\* ledger, the store, the roles and every other request are as they were, and
\* it does not go back to polling.
C11_LockTimeoutFailsOnlyTheWaiter ==
    [][\A p \in Procs :
         /\ (pc[p] = "acquire" /\ pc'[p] = "audit" /\ result'[p].code = "ERROR") =>
               /\ lock \notin {0, p} /\ lock' = lock
               /\ csv' = csv /\ orders' = orders /\ roles' = roles
               /\ GrantsBy(p)' = {} /\ WritesBy(p)' = {}
               /\ p \notin consulted' /\ webinarRows'[p] = <<>>
               /\ \A q \in Procs \ {p} : pc'[q] = pc[q] /\ result'[q] = result[q]
         /\ pc[p] \in {"audit", "done"} => pc'[p] \in {"audit", "done"}]_vars

C11_Witness ==
    \E p, q \in Procs :
        /\ p # q /\ atStart[p].rowUsed
        /\ Returned(p) /\ result[p].code = "ERROR"
        /\ lock = q /\ pc[q] \in SectionPcs

\* C12 as stated: when a role grant of the webinar section fails, the row of
\* the code is left marked used in the ledger.
C12_FailedGrantLeavesRowUsed ==
    [][\A p \in Procs :
         (pc[p] \in {"w_add_member", "w_add_lifetime"} /\ pc'[p] = "audit"
          /\ grants' = grants) =>
             \E i \in 1..Len(csv') :
                 Cells(csv'[i])[1] = uuid[p] /\ UsedRow(csv'[i])]_vars

\* C13: a request that returned WC_UPDATE_FAILED was granted the member role
\* before the write, still holds it, wrote nothing to the store and raised the
\* critical alert; the failing write leaves store and roles as they were, and
\* a request that has its result never goes back to the write.
C13_UpdateFailureKeepsGrant ==
    /\ [](\A p \in Procs :
            (pc[p] \in {"audit", "done"} /\ result[p].code = "WC_UPDATE_FAILED") =>
                /\ <<p, uuid[p], user[p], "member">> \in grants
                /\ "member" \in roles[user[p]]
                /\ <<CallerOf(p), "Activation WC Update Failed">> \in critical
                /\ <<p, "order">> \notin writes
                /\ result[p].orderId # "null")
    /\ [][\A p \in Procs :
            /\ (pc[p] = "o_update" /\ pc'[p] # "o_update") =>
                  /\ <<p, uuid[p], user[p], "member">> \in grants
                  /\ <<p, "order">> \notin writes' =>
                        /\ result'[p].code = "WC_UPDATE_FAILED"
                        /\ roles' = roles /\ orders' = orders
                  /\ <<p, "order">> \in writes' => result'[p].code = "OK"
            /\ pc[p] \in {"audit", "done"} => pc'[p] \in {"audit", "done"}]_vars

C13_Witness ==
    \E p \in Procs :
        /\ Returned(p) /\ result[p].code = "WC_UPDATE_FAILED"
        /\ roles[user[p]] # {}
        /\ <<CallerOf(p), "Activation WC Update Failed">> \in critical
        /\ \A i \in 1..Len(orders) :
              orders[i].id = result[p].orderId => Claimable(orders[i])

\* The product names that contain "lifetime" in some letter case, and the
\* record of the order store an OK activation names in its result.
LifetimeNames == {Annual_LIFETIME_Bundle, Lifetime_Plan}
LifetimeProduct(o) == \E k \in 1..Len(o.line_items) : o.line_items[k] \in LifetimeNames
OrderOfResult(p) == orders[CHOOSE i \in 1..Len(orders) : orders[i].id = result[p].orderId]
OkByOrder(p) == Returned(p) /\ result[p].code = "OK" /\ result[p].orderId # "WEBINAR"
RolesGrantedBy(p) == {g[4] : g \in GrantsBy(p)}

AuditChannels == {"unset", "none", "throws", "text"}

InitAudit ==
    /\ orders = << Order("1", "completed", "c2", Absent, Absent, Absent,
                         <<Lifetime_Plan>>),
                   Order("2", "completed", "c1", Absent, Absent, Absent,
                         <<Member_1_Tahun>>) >>
    /\ csv \in Ledgers
    /\ env \in Envs
    /\ lock = 0
    /\ roles = [u \in Users |-> {}]
    /\ pc = [p \in Procs |-> "idle"]
    /\ user = [p \in Procs |-> "u1"]
    /\ uuid = [p \in Procs |-> "c1"]
    /\ webinarRows = [p \in Procs |-> <<>>]
    /\ found = [p \in Procs |-> NoOrder]
    /\ page = [p \in Procs |-> 0]
    /\ pages = [p \in Procs |-> 0]
    /\ result = [p \in Procs |-> NoResult]
    /\ atStart = [p \in Procs |-> NothingAtStart]
    /\ grants = {}
    /\ writes = {}
    /\ consulted = {}
    /\ critical = {}
    /\ outcomes = {}
    /\ ExpiryInit
    /\ CronInit /\ ReminderInit /\ ApiInit /\ LogInit
    /\ auditChannel \in AuditChannels
    /\ audits = {}

SpecAudit == InitAudit /\ [][Next]_vars

\* The audit records of request p.
AuditsOf(p) == {a \in audits : a.request = p}

\* C29 as stated: every call that has returned has emitted exactly one audit
\* record, carrying the identity, the code and the outcome code returned.
C29_OneAuditRecordPerCall ==
    \A p \in Procs :
        Returned(p) =>
            AuditsOf(p) = {[request |-> p, user |-> user[p], uuid |-> uuid[p],
                            code |-> result[p].code]}

\* C29 amended: a call emits no audit record before its finally block and at
\* most one in it, carrying the identity, the code and the outcome code
\* returned; exactly one when the activation log channel is configured,
\* fetched as a text channel and accepts the message.  The finally block
\* leaves the result as it was and ends in the return, whatever the channel.
C29_AtMostOneAuditRecordPerCall ==
    /\ [](\A p \in Procs :
            /\ ~Returned(p) => AuditsOf(p) = {}
            /\ Returned(p) =>
                  /\ AuditsOf(p) \subseteq
                        {[request |-> p, user |-> user[p], uuid |-> uuid[p],
                          code |-> result[p].code]}
                  /\ auditChannel = "text" => AuditsOf(p) # {}
                  /\ \E o \in outcomes : o.request = p /\ o.code = result[p].code)
    /\ [][\A p \in Procs :
            pc[p] = "audit" /\ pc'[p] # "audit" =>
                /\ pc'[p] = "done"
                /\ result'[p] = result[p]
                /\ roles' = roles /\ orders' = orders /\ csv' = csv]_vars

C29_Witness ==
    /\ auditChannel = "text"
    /\ \E p, q \in Procs :
          /\ Returned(p) /\ result[p].code = "OK"
          /\ Returned(q) /\ result[q].code \in {"ERROR", "NOT_FOUND", "ALREADY_USED"}
          /\ Cardinality(AuditsOf(p)) = 1 /\ Cardinality(AuditsOf(q)) = 1

\* ------------------------------------------------ findOrderByUUID by itself
\* The stores findOrderByUUID is tried on: every representation of is_old,
\* with and without discord_id and activation_used, in any status.
FindKinds(id) ==
    { Order(id, st, c, old, did, used, <<>>) :
        st \in {"completed", "processing"}, c \in Codes, old \in IsOldValues,
        did \in {Absent, "u1"}, used \in {Absent, "1"} }

FindStores == { s \in [1..NumOrders -> UNION {FindKinds(ToString(i)) : i \in 1..NumOrders}] :
                    \A i \in 1..NumOrders : s[i].id = ToString(i) }

InitFind ==
    /\ orders \in FindStores
    /\ csv = <<>>
    /\ env = [member |-> TRUE, lifetime |-> TRUE]
    /\ ProcInit

\* One call of findOrderByUUID(c), run to its return on a store at rest.
FindCall(c) ==
    /\ pc[1] = "idle"
    /\ uuid' = [uuid EXCEPT ![1] = c]
    /\ found' = [found EXCEPT ![1] = findOrderByUUID(orders, c)]
    /\ pc' = [pc EXCEPT ![1] = "found"]
    /\ consulted' = consulted \cup {1}
    /\ UNCHANGED <<orders, csv, lock, roles, env, user, webinarRows, page,
                   pages, result, atStart, grants, writes, critical, outcomes>>
    /\ UNCHANGED expiryVars
    /\ UNCHANGED serviceVars

NextFind == \E c \in Codes : FindCall(c)

SpecFind == InitFind /\ [][NextFind]_vars

\* C7: when some record carries the code, findOrderByUUID returns the first
\* such record exactly when that record is claimable, and never returns a
\* record that is not claimable.
C7_ReturnedIffClaimable ==
    pc[1] = "found" =>
        LET m == FirstMatch(orders, uuid[1]) IN
        /\ m # 0 => ((found[1] = orders[m]) <=> Claimable(orders[m]))
        /\ found[1] # NoOrder => Claimable(found[1])

\* C8: when the first record that carries the code is retired or claimed,
\* findOrderByUUID returns nothing, whatever follows that record.
C8_FirstMatchIsTerminal ==
    pc[1] = "found" =>
        LET m == FirstMatch(orders, uuid[1]) IN
        (m # 0 /\ ~Claimable(orders[m])) => found[1] = NoOrder

\* ------------------------------------------------------------ runExpiryCheck
\* A calendar date (YYYY-MM-DD) is "d" and the number of its day; the date of
\* the n-th daily check is DateOf(n).
DateOf(n) == "d" \o ToString(n)

\* new Date(value).toISOString().slice(0, 10) on the expiry_date values the
\* store holds: a date, or a date with a time of day.
expiryIso(v) == IF v = "d1T12:00Z" THEN "d1" ELSE v

\* An order record with an expiry_date.
ExpiryOrder(id, status, isOldV, did, expiry) ==
    [expiry_date |-> expiry] @@
    Order(id, status, "c9", isOldV, did, IF did = Absent THEN Absent ELSE "1",
          <<Membership_3_BULAN>>)

\* isOldValue / isOld of findActiveOrderByDiscordId and findOrdersExpiringOn.
isOld(v) == v \in {"bool:true", "true", "True", "1"}

\* api.get('orders', {per_page, page, status: 'completed'}) for page 1 up to
\* totalPages: the completed records, in store order.
pagesFromFirstOnly(list, pg, last) == getPage(list, pg)

RECURSIVE pagesFrom(_, _, _)
pagesFrom(list, pg, last) ==
    IF pg > last THEN <<>> ELSE getPage(list, pg) \o pagesFrom(list, pg + 1, last)

completedOrders(store) ==
    pagesFrom(SelectSeq(store, LAMBDA o : o.status = "completed"), 1,
              totalPages(getOrdersTotal(store)))

\* findOrdersExpiringOn(targetDate): the completed records that are not old
\* and whose expiry_date is the target date.
findOrdersExpiringOn(store, isoTarget) ==
    SelectSeq(completedOrders(store),
              LAMBDA o : /\ ~isOld(o.is_old)
                         /\ o.expiry_date # Absent
                         /\ expiryIso(o.expiry_date) = isoTarget)

\* new Date(value) is an Invalid Date for a value that is no date, and
\* toISOString() on it throws a RangeError ("Invalid time value").
invalidDate(v) == v \in {"not-a-date"}

\* findOrdersExpiringOn has no try around new Date(...).toISOString(): the
\* scan throws when a completed record that is not old carries an expiry_date
\* that is no date.
scanThrows(store) ==
    \E i \in 1..Len(completedOrders(store)) :
        LET o == completedOrders(store)[i]
        IN  /\ ~isOld(o.is_old)
            /\ o.expiry_date # Absent
            /\ invalidDate(o.expiry_date)

\* findActiveOrderByDiscordId(discordId): the first completed record that is
\* not old and carries the discord_id.
findActiveOrderByDiscordId(store, discordId) ==
    LET hits == SelectSeq(completedOrders(store),
                          LAMBDA o : ~isOld(o.is_old) /\ o.discord_id = discordId) IN
    IF Len(hits) = 0 THEN NoOrder ELSE hits[1]

\* api.put(`orders/${orderId}`, {status: 'finished', meta_data: [is_old 'True']})
markOrderFinished(store, orderId) ==
    [i \in 1..Len(store) |->
        IF store[i].id = orderId
        THEN [store[i] EXCEPT !.status = "finished", !.is_old = "True"]
        ELSE store[i]]

\* The renewal test without the comparison of ids.
isRenewalAnyActive(active, order) == active # NoOrder

\* activeOrder && activeOrder.id !== order.id
isRenewal(active, order) == active # NoOrder /\ active.id # order.id

\* member.roles.cache.has(roleId)
hasRoleAlways(rs, role) == TRUE
hasRole(rs, role) == role \in rs

\* member.roles.remove(roleId, reason)
rolesRemoveNothing(rs, role) == rs
rolesRemove(rs, role) == rs \ {role}

RemovalFailure(error, alert) ==
    [result |-> [success |-> FALSE, error |-> error, roleRemoved |-> FALSE],
     alert |-> alert]

\* removeMember(guild, userId) on a user whose roles are rs.  fetched is what
\* guild.members.fetch gave ("member", "null", or "throws" for a user who is
\* not in the guild), configured whether MEMBER_ROLE_ID is set, removeOk
\* whether member.roles.remove resolved.  The value is the roles afterwards,
\* the object returned, and whether logCritical was called.
removeMember(rs, fetched, configured, removeOk) ==
    IF fetched = "throws" THEN [roles |-> rs] @@ RemovalFailure("Unknown Member", FALSE)
    ELSE IF fetched = "null" THEN [roles |-> rs] @@ RemovalFailure("Member not found", FALSE)
    ELSE IF ~configured THEN [roles |-> rs] @@ RemovalFailure("Server not configured", FALSE)
    ELSE IF hasRole(rs, "member")
         THEN IF removeOk
              THEN [roles |-> rolesRemove(rs, "member"), alert |-> FALSE,
                    result |-> [success |-> TRUE, error |-> "none", roleRemoved |-> TRUE]]
              ELSE [roles |-> rs] @@ RemovalFailure("remove failed", TRUE)
         ELSE [roles |-> rs, alert |-> FALSE,
               result |-> [success |-> TRUE, error |-> "none", roleRemoved |-> FALSE]]

\* if (!result.success)
removalFailedNever(r) == FALSE
removalFailed(r) == ~r.success

\* The stores an expiry check may start from: NumOrders records, record i with
\* id i, each one of the kinds below: bound to u1 and expiring on day 1; bound
\* to u1 and expiring on day 2; bound to u2 and expiring on day 1 (a date with
\* a time); expiring on day 1 and bound to nobody; retired; not completed.
ExpiryKinds(id) ==
    { ExpiryOrder(id, "completed", Absent, "u1", "d1"),
      ExpiryOrder(id, "completed", Absent, "u1", "d2"),
      ExpiryOrder(id, "completed", Absent, "u2", "d1T12:00Z"),
      ExpiryOrder(id, "completed", Absent, Absent, "d1"),
      ExpiryOrder(id, "completed", "1", "u1", "d1"),
      ExpiryOrder(id, "processing", Absent, "u1", Absent) }

ExpiryStores ==
    { st \in [1..NumOrders -> UNION {ExpiryKinds(ToString(i)) : i \in 1..NumOrders}] :
        \A i \in 1..NumOrders : st[i].id = ToString(i) }

InitExpiry ==
    /\ orders \in ExpiryStores
    /\ roles \in [Users -> {{}, {"member"}}]
    /\ env \in {e \in Envs : e.lifetime}
    /\ csv = <<>>
    /\ lock = 0
    /\ pc = [p \in Procs |-> "idle"]
    /\ user = [p \in Procs |-> "u1"]
    /\ uuid = [p \in Procs |-> "c1"]
    /\ webinarRows = [p \in Procs |-> <<>>]
    /\ found = [p \in Procs |-> NoOrder]
    /\ page = [p \in Procs |-> 0]
    /\ pages = [p \in Procs |-> 0]
    /\ result = [p \in Procs |-> NoResult]
    /\ atStart = [p \in Procs |-> NothingAtStart]
    /\ grants = {}
    /\ writes = {}
    /\ consulted = {}
    /\ critical = {}
    /\ outcomes = {}
    /\ ExpiryInit
    /\ ServiceInit

\* The record the loop is at, and the caller named in its alerts.
CurrentOrder == expiringOrders[idx]
Job == <<today, "job">>
Caller == <<today, CurrentOrder.id>>

Event(what, detail) ==
    [day |-> today, order |-> CurrentOrder.id, event |-> what, detail |-> detail]

\* `break` in the place of `continue`.
NextRecordBreak ==
    /\ idx' = Len(expiringOrders) + 1
    /\ xpc' = "loop"
    /\ activeOrder' = NoOrder
    /\ removal' = NoRemoval

\* `continue`, or the end of the loop body: on to the next record.
NextRecord ==
    /\ idx' = idx + 1
    /\ xpc' = "loop"
    /\ activeOrder' = NoOrder
    /\ removal' = NoRemoval

\* The cron job fires: runExpiryCheck up to `await client.guilds.fetch`.
ExpiryStart ==
    /\ xpc \in {"idle", "done"}
    /\ today < MaxScans
    /\ today' = today + 1
    /\ xpc' = "scan"
    /\ expiringOrders' = <<>>
    /\ idx' = 0
    /\ activeOrder' = NoOrder
    /\ removal' = NoRemoval
    /\ xresult' = Pending
    /\ UNCHANGED <<orders, roles, env, critical, xlog, activationVars>>
    /\ UNCHANGED serviceVars

\* A scan that retires what it returns.
ExpiryScanRetiring ==
    /\ xpc = "scan"
    /\ ~scanThrows(orders)
    /\ expiringOrders' = findOrdersExpiringOn(orders, DateOf(today))
    /\ orders' = [i \in 1..Len(orders) |->
                    IF \E j \in 1..Len(expiringOrders') : expiringOrders'[j].id = orders[i].id
                    THEN [orders[i] EXCEPT !.is_old = "True"] ELSE orders[i]]
    /\ xpc' = "adminlog"
    /\ UNCHANGED <<roles, env, critical, today, idx, activeOrder, removal, xlog,
                   xresult,
                   activationVars>>
    /\ UNCHANGED serviceVars

\* Lines 933-940: guilds.fetch and findOrdersExpiringOn(today) resolve, or
\* one of them throws and the outer catch ends the run with an alert: the
\* guild or the store fails ("err.message"), or the scan meets an expiry_date
\* that is no date ("Invalid time value").
ExpiryScan ==
    /\ xpc = "scan"
    /\ \/ /\ ~scanThrows(orders)
          /\ expiringOrders' = findOrdersExpiringOn(orders, DateOf(today))
          /\ xpc' = "adminlog"
          /\ UNCHANGED <<critical, xresult>>
       \/ /\ critical' = logCritical(critical, Job, "Expiry Job Critical Error")
          /\ xpc' = "done"
          /\ xresult' = Failure("err.message")
          /\ UNCHANGED expiringOrders
       \/ /\ scanThrows(orders)
          /\ critical' = logCritical(critical, Job, "Expiry Job Critical Error")
          /\ xpc' = "done"
          /\ xresult' = Failure("Invalid time value")
          /\ UNCHANGED expiringOrders
    /\ UNCHANGED <<orders, roles, env, today, idx, activeOrder, removal, xlog,
                   activationVars>>
    /\ UNCHANGED serviceVars

\* Lines 942-980, the list posted to the admin channel.  With no channel
\* configured, or once the list is sent, or when channel.send threw (the
\* channel "throws"), the loop begins;
\* with a channel that cannot be fetched or is not text based, and after the
\* "no memberships expiring" message, the function returns.
ExpiryAdminLog ==
    /\ xpc = "adminlog"
    /\ \E channel \in {"unset", "text", "throws", "none"} :
         \/ /\ \/ channel \in {"unset", "throws"}
               \/ channel = "text" /\ Len(expiringOrders) > 0
            /\ xpc' = "loop"
            /\ idx' = 1
            /\ UNCHANGED xresult
         \/ /\ channel = "none" \/ (channel = "text" /\ Len(expiringOrders) = 0)
            /\ xpc' = "done"
            /\ xresult' = Undefined
            /\ UNCHANGED idx
    /\ UNCHANGED <<orders, roles, env, critical, today, expiringOrders,
                   activeOrder, removal, xlog, activationVars>>
    /\ UNCHANGED serviceVars

\* The loop body without its try/catch: the exception ends the run.
ExpiryNextAborting ==
    /\ xpc = "loop"
    /\ \/ /\ idx > Len(expiringOrders)
          /\ xpc' = "done"
          /\ xresult' = Success(Len(expiringOrders))
          /\ UNCHANGED <<idx, activeOrder, removal, critical, xlog>>
       \/ /\ idx <= Len(expiringOrders)
          /\ CurrentOrder.discord_id = Absent
          /\ xlog' = Append(xlog, Event("no_identity", "none"))
          /\ NextRecord
          /\ UNCHANGED <<critical, xresult>>
       \/ /\ idx <= Len(expiringOrders)
          /\ CurrentOrder.discord_id # Absent
          /\ \/ LET active == findActiveOrderByDiscordId(orders, CurrentOrder.discord_id) IN
                /\ activeOrder' = active
                /\ xpc' = IF isRenewal(active, CurrentOrder) THEN "renewal" ELSE "remove"
                /\ UNCHANGED <<idx, removal, critical, xlog, xresult>>
             \/ /\ critical' = logCritical(critical, Job, "Expiry Job Critical Error")
                /\ xlog' = Append(xlog, Event("error", "none"))
                /\ xpc' = "done"
                /\ xresult' = Failure("err.message")
                /\ UNCHANGED <<idx, activeOrder, removal>>
    /\ UNCHANGED <<orders, roles, env, today, expiringOrders, activationVars>>
    /\ UNCHANGED serviceVars

\* Lines 982-994 and 1041-1046: the loop is over; or the record has no
\* discord_id and is skipped; or findActiveOrderByDiscordId resolves and the
\* renewal test is made; or it throws and the catch of the loop body alerts.
ExpiryNext ==
    /\ xpc = "loop"
    /\ \/ /\ idx > Len(expiringOrders)
          /\ xpc' = "done"
          /\ xresult' = Success(Len(expiringOrders))
          /\ UNCHANGED <<idx, activeOrder, removal, critical, xlog>>
       \/ /\ idx <= Len(expiringOrders)
          /\ CurrentOrder.discord_id = Absent
          /\ xlog' = Append(xlog, Event("no_identity", "none"))
          /\ NextRecord
          /\ UNCHANGED <<critical, xresult>>
       \/ /\ idx <= Len(expiringOrders)
          /\ CurrentOrder.discord_id # Absent
          /\ \/ LET active == findActiveOrderByDiscordId(orders, CurrentOrder.discord_id) IN
                /\ activeOrder' = active
                /\ xpc' = IF isRenewal(active, CurrentOrder) THEN "renewal" ELSE "remove"
                /\ UNCHANGED <<idx, removal, critical, xlog, xresult>>
             \/ /\ critical' = logCritical(critical, Caller, "Expiry Check Error")
                /\ xlog' = Append(xlog, Event("error", "none"))
                /\ NextRecord
                /\ UNCHANGED xresult
    /\ UNCHANGED <<orders, roles, env, today, expiringOrders, activationVars>>
    /\ UNCHANGED serviceVars

\* Lines 995-1023: a newer active order exists; markOrderFinished resolves,
\* or rejects and the error is logged; the renewal notice; continue.
ExpiryRenewal ==
    /\ xpc = "renewal"
    /\ \/ /\ orders' = markOrderFinished(orders, CurrentOrder.id)
          /\ xlog' = Append(xlog, Event("renewal_marked", "none"))
       \/ /\ xlog' = Append(xlog, Event("renewal_mark_failed", "none"))
          /\ UNCHANGED orders
    /\ NextRecord
    /\ UNCHANGED <<roles, env, critical, today, expiringOrders, xresult,
                   activationVars>>
    /\ UNCHANGED serviceVars

\* Lines 1026-1032: removeMember runs to its return; when it reports no
\* success the alert is raised and the record is left for later.
ExpiryRemove ==
    /\ xpc = "remove"
    /\ \E fetched \in {"member", "null", "throws"}, removeOk \in BOOLEAN :
         LET u == CurrentOrder.discord_id
             r == removeMember(roles[u], fetched, env.member, removeOk)
             alerted == IF r.alert
                        THEN logCritical(critical, Caller, "Membership Role Removal Failed")
                        ELSE critical IN
         /\ roles' = [roles EXCEPT ![u] = r.roles]
         /\ \/ /\ removalFailed(r.result)
               /\ critical' = logCritical(alerted, Caller, "Auto-Removal Failed")
               /\ xlog' = Append(xlog, Event("revoke_failed", r.result.error))
               /\ NextRecord
            \/ /\ ~removalFailed(r.result)
               /\ critical' = alerted
               /\ removal' = r.result
               /\ xlog' = Append(xlog, Event(IF r.result.roleRemoved THEN "revoked"
                                             ELSE "revoke_not_needed", "none"))
               /\ xpc' = "mark"
               /\ UNCHANGED <<idx, activeOrder>>
    /\ UNCHANGED <<orders, env, today, expiringOrders, xresult, activationVars>>
    /\ UNCHANGED serviceVars

\* Lines 1034-1040: markOrderFinished resolves, or rejects and the alert is
\* raised; either way the loop goes on.
ExpiryMark ==
    /\ xpc = "mark"
    /\ \/ /\ orders' = markOrderFinished(orders, CurrentOrder.id)
          /\ xlog' = Append(xlog, Event("marked", "none"))
          /\ UNCHANGED critical
       \/ /\ critical' = logCritical(critical, Caller, "Mark Order Finished Failed")
          /\ xlog' = Append(xlog, Event("mark_failed", "none"))
          /\ UNCHANGED orders
    /\ NextRecord
    /\ UNCHANGED <<roles, env, today, expiringOrders, xresult, activationVars>>
    /\ UNCHANGED serviceVars

NextExpiry ==
    \/ ExpiryStart
    \/ ExpiryScan
    \/ ExpiryAdminLog
    \/ ExpiryNext
    \/ ExpiryRenewal
    \/ ExpiryRemove
    \/ ExpiryMark

SpecExpiry == InitExpiry /\ [][NextExpiry]_vars

\* Stores whose first record carries an expiry_date that is no date, or the
\* date of the second day, beside a record of the same member that expires on
\* the first day; the first record is completed or not, old or not.
InvalidDateStores ==
    { <<ExpiryOrder("1", st, old, "u1", exp),
        ExpiryOrder("2", "completed", Absent, "u1", DateOf(1))>> :
        st \in {"completed", "processing"}, old \in {Absent, "True"},
        exp \in {"not-a-date", DateOf(2)} }

InitInvalidDate ==
    /\ orders \in InvalidDateStores
    /\ roles \in [Users -> {{}, {"member"}}]
    /\ env \in {e \in Envs : e.lifetime}
    /\ csv = <<>>
    /\ lock = 0
    /\ pc = [p \in Procs |-> "idle"]
    /\ user = [p \in Procs |-> "u1"]
    /\ uuid = [p \in Procs |-> "c1"]
    /\ webinarRows = [p \in Procs |-> <<>>]
    /\ found = [p \in Procs |-> NoOrder]
    /\ page = [p \in Procs |-> 0]
    /\ pages = [p \in Procs |-> 0]
    /\ result = [p \in Procs |-> NoResult]
    /\ atStart = [p \in Procs |-> NothingAtStart]
    /\ grants = {}
    /\ writes = {}
    /\ consulted = {}
    /\ critical = {}
    /\ outcomes = {}
    /\ ExpiryInit
    /\ ServiceInit

SpecInvalidDate == InitInvalidDate /\ [][NextExpiry]_vars

\* -------------------------------------------------- claims of the expiry check
\* What the claims call a renewal of record a: another completed record, not
\* retired, bound to the identity of a.
Renewed(store, a) ==
    \E i \in 1..Len(store) :
        /\ store[i].id # a.id /\ store[i].status = "completed"
        /\ ~Retired(store[i]) /\ store[i].discord_id = a.discord_id

\* The record with the given id, and the events of today's run for it.
RecordOf(id) == orders[CHOOSE i \in 1..Len(orders) : orders[i].id = id]
EventsOf(id) == SelectSeq(xlog, LAMBDA e : e.day = today /\ e.order = id)
Finished(o) == o.status = "finished" /\ o.is_old = "True"
RevokeEvents == {"revoked", "revoke_not_needed", "revoke_failed"}
NotFoundErrors == {"Member not found", "Unknown Member"}
LoopDone == xpc = "done" /\ idx > Len(expiringOrders)

\* C14 as stated: while the identity of the record being reconciled has a
\* renewal, wherever it stands in the store, the step taken is the marking of
\* the renewal branch: the record becomes finished and is_old, no other record
\* changes, and no role is revoked.
C14_RenewalKeepsRole ==
    [][(xpc \in {"renewal", "remove"} /\ Renewed(orders, CurrentOrder)) =>
          /\ xpc = "renewal"
          /\ roles' = roles
          /\ \A i \in 1..Len(orders) :
                IF orders[i].id = CurrentOrder.id
                THEN Finished(orders'[i])
                ELSE orders'[i] = orders[i]]_vars

\* C15: outside the renewal branch a record is marked only from the position
\* after a removeMember that reported success for it, when its identity no
\* longer holds the member role; and a record marked in this run is finished
\* and is_old and its identity is without the member role for the rest of
\* the run.
C15_RevokeThenMark ==
    /\ [][(orders' # orders /\ xpc # "renewal") =>
             /\ xpc = "mark" /\ removal.success
             /\ xlog # <<>>
             /\ xlog[Len(xlog)].order = CurrentOrder.id
             /\ xlog[Len(xlog)].day = today
             /\ xlog[Len(xlog)].event \in {"revoked", "revoke_not_needed"}
             /\ "member" \notin roles[CurrentOrder.discord_id]
             /\ orders' = [i \in 1..Len(orders) |->
                             IF orders[i].id = CurrentOrder.id
                             THEN [orders[i] EXCEPT !.status = "finished",
                                                    !.is_old = "True"]
                             ELSE orders[i]]]_vars
    /\ [](\A k \in 1..Len(xlog) :
            (xlog[k].day = today /\ xlog[k].event = "marked") =>
                /\ Finished(RecordOf(xlog[k].order))
                /\ "member" \notin roles[RecordOf(xlog[k].order).discord_id])

C15_Witness ==
    /\ LoopDone
    /\ \E k \in 1..Len(xlog) :
          /\ k > 1
          /\ xlog[k].day = today /\ xlog[k].event = "marked"
          /\ xlog[k - 1].event = "revoked" /\ xlog[k - 1].order = xlog[k].order
          /\ ~Renewed(orders, RecordOf(xlog[k].order))
          /\ Finished(RecordOf(xlog[k].order))

\* C16: the marking position is reached only with a removeMember result that
\* reports success; a removeMember that reports failure raises the
\* Auto-Removal Failed alert, and the record it was called for is, for the
\* rest of the run, as findOrdersExpiringOn returned it.
C16_FailedRevocationLeavesRecord ==
    /\ [](xpc = "mark" => removal.success)
    /\ [](\A k \in 1..Len(xlog) :
            (xlog[k].day = today /\ xlog[k].event = "revoke_failed") =>
                /\ <<<<today, xlog[k].order>>, "Auto-Removal Failed">> \in critical
                /\ \E j \in 1..Len(expiringOrders) :
                      /\ expiringOrders[j].id = xlog[k].order
                      /\ RecordOf(xlog[k].order) = expiringOrders[j]
                      /\ RecordOf(xlog[k].order).status = "completed"
                      /\ ~Retired(RecordOf(xlog[k].order)))
    /\ [][(xpc = "remove" /\ xpc' # "remove" /\ xpc' # "mark") =>
             /\ orders' = orders
             /\ <<Caller, "Auto-Removal Failed">> \in critical']_vars

C16_Witness ==
    /\ LoopDone
    /\ \E k \in 1..Len(xlog) :
          /\ xlog[k].day = today /\ xlog[k].event = "revoke_failed"
          /\ xlog[k].detail = "remove failed"
          /\ "member" \in roles[RecordOf(xlog[k].order).discord_id]
          /\ RecordOf(xlog[k].order).status = "completed"

\* C17 as stated: when a daily check has made its scan, every record whose
\* revocation failed in the check of the day before is among the records it
\* is going to reconcile.
C17_FailedRevocationRetriedNextDay ==
    xpc = "adminlog" =>
        \A k \in 1..Len(xlog) :
            (xlog[k].day = today - 1 /\ xlog[k].event = "revoke_failed") =>
                \E j \in 1..Len(expiringOrders) : expiringOrders[j].id = xlog[k].order

\* C18: a markOrderFinished that fails after the revocation raises the Mark
\* Order Finished Failed alert, changes no role, and the loop goes on to the
\* next record; removeMember is called at most once for a record in a run,
\* and a run that went through its loop has dealt with every record of its
\* scan.
C18_MarkFailureAlertsAndContinues ==
    /\ [][(xpc = "mark" /\ xpc' # "mark" /\ orders' = orders) =>
             /\ <<Caller, "Mark Order Finished Failed">> \in critical'
             /\ roles' = roles
             /\ xpc' = "loop" /\ idx' = idx + 1
             /\ expiringOrders' = expiringOrders]_vars
    /\ [](\A j \in 1..Len(expiringOrders) :
            /\ Len(SelectSeq(EventsOf(expiringOrders[j].id),
                             LAMBDA e : e.event \in RevokeEvents)) <= 1
            /\ LoopDone => Len(EventsOf(expiringOrders[j].id)) >= 1)

C18_Witness ==
    /\ LoopDone
    /\ \E k \in 1..Len(xlog) :
          /\ k > 1 /\ k < Len(xlog)
          /\ xlog[k].day = today /\ xlog[k].event = "mark_failed"
          /\ xlog[k - 1].event = "revoked"
          /\ xlog[k + 1].day = today /\ xlog[k + 1].order # xlog[k].order
          /\ <<<<today, xlog[k].order>>, "Mark Order Finished Failed">> \in critical
          /\ RecordOf(xlog[k].order).status = "completed"

\* C19 as stated: a record whose identity removeMember did not find in the
\* guild has no Auto-Removal Failed alert and is retired when the loop of the
\* run is over.
C19_MemberNotFoundStillRetires ==
    \A k \in 1..Len(xlog) :
        (xlog[k].day = today /\ xlog[k].detail \in NotFoundErrors) =>
            /\ <<<<today, xlog[k].order>>, "Auto-Removal Failed">> \notin critical
            /\ LoopDone => Finished(RecordOf(xlog[k].order))

\* C20: the member role is the role MEMBER_ROLE_ID names. For the identity
\* removeMember is about to be called for, found in the guild, with that role
\* configured: without the member role the call reports success with
\* roleRemoved false and leaves the roles as they are, and a second call
\* leaves the roles the first call left. And every call made by the expiry
\* check takes at most the member role from the one identity, reports
\* roleRemoved exactly when it took it, and leaves the identity without the
\* member role when it reports success.
C20_RemoveMemberIdempotent ==
    /\ [](xpc = "remove" =>
            \A removeOk \in BOOLEAN :
                LET rs == roles[CurrentOrder.discord_id]
                    once == removeMember(rs, "member", env.member, removeOk)
                    twice == removeMember(once.roles, "member", env.member, removeOk) IN
                /\ ("member" \notin rs /\ env.member) =>
                      /\ once.result.success /\ ~once.result.roleRemoved
                      /\ once.roles = rs
                /\ twice.roles = once.roles)
    /\ [][xpc = "remove" =>
             LET u == CurrentOrder.discord_id IN
             /\ \A v \in Users \ {u} : roles'[v] = roles[v]
             /\ roles'[u] \in {roles[u], roles[u] \ {"member"}}
             /\ "member" \notin roles[u] => roles' = roles
             /\ xpc' = "mark" =>
                   /\ "member" \notin roles'[u]
                   /\ removal'.roleRemoved = ("member" \in roles[u])]_vars

C20_Witness ==
    /\ xpc = "mark"
    /\ removal = [success |-> TRUE, error |-> "none", roleRemoved |-> FALSE]
    /\ \E k \in 1..Len(xlog) :
          /\ xlog[k].day = today /\ xlog[k].event = "revoked"
          /\ RecordOf(xlog[k].order).discord_id = CurrentOrder.discord_id
          /\ xlog[k].order # CurrentOrder.id

\* ------------------------------------------------ claims of findOrdersExpiringOn
\* What the claims call a record expiring on date d: completed, not retired,
\* its expiry_date a value of that calendar date (with or without a time).
ExpiresOn(o, d) ==
    /\ o.status = "completed" /\ ~Retired(o)
    /\ o.expiry_date \in {d, d \o "T12:00Z"}

\* C21: what findOrdersExpiringOn returned to the check is, in store order,
\* exactly the records of the store expiring on the date of the check: each
\* of them once, whatever page it is on, and no other record.
C21_ExpiringExactlyTheMatches ==
    xpc = "adminlog" =>
        /\ expiringOrders = SelectSeq(orders, LAMBDA o : ExpiresOn(o, DateOf(today)))
        /\ \A i, j \in 1..Len(expiringOrders) :
               expiringOrders[i].id = expiringOrders[j].id => i = j

C21_Witness ==
    /\ xpc = "adminlog"
    /\ Len(expiringOrders) >= 1
    /\ expiringOrders[Len(expiringOrders)] = orders[Len(orders)]
    /\ expiringOrders[Len(expiringOrders)].expiry_date = "d1T12:00Z"
    /\ \E i \in 1..Len(orders) : ~ExpiresOn(orders[i], DateOf(today))
    /\ totalPages(getOrdersTotal(orders)) > 1

\* C22: the step in which findOrdersExpiringOn runs changes no record, no
\* role and nothing of the ledger or its lock; and calling it again for the
\* same date on the store it left returns what it returned.
C22_ScanIsPureAndRepeatable ==
    /\ [][xpc = "scan" =>
             /\ orders' = orders /\ roles' = roles
             /\ csv' = csv /\ lock' = lock]_vars
    /\ [](xpc = "adminlog" =>
             findOrdersExpiringOn(orders, DateOf(today)) = expiringOrders)

C22_Witness ==
    /\ xpc = "adminlog"
    /\ today = 2
    /\ Len(expiringOrders) >= 1
    /\ \E k \in 1..Len(xlog) : xlog[k].day = 1 /\ xlog[k].event = "marked"

\* ------------------------------------------------------- the cron schedule
\* Instants are whole hours; day 0 is the first day of the month Epoch, and
\* a Date is the instant it holds.
Epoch == [y |-> 2023, m |-> 12]

LeapYear(y) == (y % 4 = 0 /\ y % 100 # 0) \/ y % 400 = 0

DaysInMonth(y, m) ==
    IF m = 2 THEN (IF LeapYear(y) THEN 29 ELSE 28)
    ELSE IF m \in {4, 6, 9, 11} THEN 30 ELSE 31

\* Day(t) and TimeWithinDay(t) of a time value.
Day(t) == t \div 24
TimeWithinDay(t) == t % 24

\* YearFromTime, MonthFromTime and DateFromTime of the day with that number.
RECURSIVE civilFrom(_, _, _)
civilFrom(y, m, n) ==
    IF n < DaysInMonth(y, m) THEN [y |-> y, m |-> m, d |-> n + 1]
    ELSE civilFrom(IF m = 12 THEN y + 1 ELSE y, IF m = 12 THEN 1 ELSE m + 1,
                   n - DaysInMonth(y, m))

civil(day) == civilFrom(Epoch.y, Epoch.m, day)

\* MakeDay(year, month, date): the number of the day; date may lie beyond the
\* end of the month.
RECURSIVE monthStart(_, _)
monthStart(y, m) ==
    IF y = Epoch.y /\ m = Epoch.m THEN 0
    ELSE LET py == IF m = 1 THEN y - 1 ELSE y
             pm == IF m = 1 THEN 12 ELSE m - 1 IN
         monthStart(py, pm) + DaysInMonth(py, pm)

MakeDay(y, m, dt) == monthStart(y, m) + dt - 1

\* date.getDate() and date.setDate(dt), in the zone of the server clock.
getDate(t) == civil(Day(t + tz.zone)).d
setDate(t, dt) ==
    LET c == civil(Day(t + tz.zone)) IN
    MakeDay(c.y, c.m, dt) * 24 + TimeWithinDay(t + tz.zone) - tz.zone

\* date.toISOString().slice(0, 10)
pad2(n) == IF n < 10 THEN "0" \o ToString(n) ELSE ToString(n)
toISODate(t) ==
    LET c == civil(Day(t)) IN
    ToString(c.y) \o "-" \o pad2(c.m) \o "-" \o pad2(c.d)

\* getDateWithOffset(daysFromNow)
getDateWithOffsetToday(daysFromNow) == clock' + tz.offset
getDateWithOffset(daysFromNow) ==
    LET date == clock' + tz.offset IN
    setDate(date, getDate(date) + daysFromNow)

\* The offsets and server zones the schedule is run with.
TzOffsets == {7, -6}
ServerZones == {0, 7}

InitCron ==
    /\ tz \in [offset : TzOffsets, zone : ServerZones]
    /\ clock = 24 - tz.zone
    /\ fired = <<>>
    /\ orders = <<>>
    /\ roles = [u \in Users |-> {}]
    /\ env = [member |-> TRUE, lifetime |-> TRUE]
    /\ csv = <<>>
    /\ lock = 0
    /\ pc = [p \in Procs |-> "idle"]
    /\ user = [p \in Procs |-> "u1"]
    /\ uuid = [p \in Procs |-> "c1"]
    /\ webinarRows = [p \in Procs |-> <<>>]
    /\ found = [p \in Procs |-> NoOrder]
    /\ page = [p \in Procs |-> 0]
    /\ pages = [p \in Procs |-> 0]
    /\ result = [p \in Procs |-> NoResult]
    /\ atStart = [p \in Procs |-> NothingAtStart]
    /\ grants = {}
    /\ writes = {}
    /\ consulted = {}
    /\ critical = {}
    /\ outcomes = {}
    /\ ExpiryInit
    /\ ReminderInit /\ ApiInit /\ AuditInit /\ LogInit

\* The local time of the server, and the start of its local day.
LocalHour == TimeWithinDay(clock + tz.zone)
LocalMidnight == Day(clock + tz.zone) * 24 - tz.zone

Firing(job, target) == [job |-> job, at |-> clock', target |-> target]

\* cron.schedule("0 5 * * *", runExpiryCheck): the target date of the check
\* is that of new Date(Date.now() + tzOffsetHours hours).
CronExpiryCheck ==
    /\ LocalHour < 5
    /\ clock' = LocalMidnight + 5
    /\ fired' = Append(fired, Firing("check", toISODate(clock' + tz.offset)))
    /\ UNCHANGED <<tz, orders, roles, env, critical, activationVars, expiryVars,
                   reminderVars, apiVars, auditVars, logVars>>

\* cron.schedule("0 12 * * *", runExpiryReminder): the target date is that of
\* getDateWithOffset(1).
CronExpiryReminder ==
    /\ LocalHour >= 5 /\ LocalHour < 12
    /\ clock' = LocalMidnight + 12
    /\ fired' = Append(fired, Firing("reminder", toISODate(getDateWithOffset(1))))
    /\ UNCHANGED <<tz, orders, roles, env, critical, activationVars, expiryVars,
                   reminderVars, apiVars, auditVars, logVars>>

\* The day ends.
Midnight ==
    /\ LocalHour >= 12
    /\ Day(clock + tz.zone) < MaxDays
    /\ clock' = LocalMidnight + 24
    /\ UNCHANGED <<tz, fired, orders, roles, env, critical, activationVars,
                   expiryVars, reminderVars, apiVars, auditVars, logVars>>

NextCron == CronExpiryCheck \/ CronExpiryReminder \/ Midnight

SpecCron == InitCron /\ [][NextCron]_vars

\* -------------------------------------------------- claims of the schedule
\* The offset-adjusted calendar day of an instant, the date string of a day,
\* and the firings of a job whose target is date d.
AdjustedDay(t) == Day(t + tz.offset)
DateString(day) == toISODate(day * 24)
Matches(job, d) == {i \in 1..Len(fired) : fired[i].job = job /\ fired[i].target = d}
ScheduleOver == Day(clock + tz.zone) = MaxDays /\ LocalHour >= 12

\* Expiry dates at the end of a month, of a year and of a leap February.
SampleDates == {"2023-12-31", "2024-01-01", "2024-02-29", "2024-03-01"}

\* C23: the check targets the offset-adjusted date of its instant and the
\* reminder the calendar day after the offset-adjusted date of its instant;
\* no two firings of a job have the same target, so a date is matched by
\* each job on at most one day, and the dates of SampleDates on exactly one
\* day once the schedule has passed them: by the reminder on the day whose
\* offset-adjusted date is the day before that of the check.
C23_OneScanDayPerDate ==
    /\ \A i \in 1..Len(fired) :
          /\ fired[i].job = "check" =>
                fired[i].target = DateString(AdjustedDay(fired[i].at))
          /\ fired[i].job = "reminder" =>
                fired[i].target = DateString(AdjustedDay(fired[i].at) + 1)
          /\ \A j \in 1..Len(fired) :
                (fired[i].job = fired[j].job /\ fired[i].target = fired[j].target)
                    => i = j
    /\ \A d \in SampleDates :
          /\ \A i \in Matches("check", d) :
                /\ Matches("reminder", d) # {}
                /\ \A j \in Matches("reminder", d) :
                      /\ j < i
                      /\ AdjustedDay(fired[j].at) + 1 = AdjustedDay(fired[i].at)
          /\ ScheduleOver =>
                /\ Cardinality(Matches("check", d)) = 1
                /\ Cardinality(Matches("reminder", d)) = 1

C23_Witness ==
    /\ ScheduleOver
    /\ \E i \in Matches("check", "2024-01-01"), j \in Matches("reminder", "2024-01-01") :
          /\ DateString(AdjustedDay(fired[j].at)) = "2023-12-31"
          /\ DateString(AdjustedDay(fired[i].at)) = "2024-01-01"
    /\ Matches("reminder", "2024-02-29") # {}
    /\ Matches("check", "2024-03-01") # {}

\* --------------------------------------------------------- runExpiryReminder
\* parseMembershipDuration(productName)
Null == [label |-> "null"]
parseMembershipDuration(productName) ==
    LET name == toLowerCaseChars(productName) IN
    IF includes(name, <<"3", " ", "b", "u", "l", "a", "n">>)
    THEN [label |-> "3 Bulan", months |-> 3,
          renewUrl |-> "https://s.id/PerpanjangCTA_3-Bulan"]
    ELSE IF \/ includes(name, <<"1", " ", "t", "a", "h", "u", "n">>)
            \/ includes(name, <<"1", "2", " ", "b", "u", "l", "a", "n">>)
    THEN [label |-> "1 Tahun", months |-> 12,
          renewUrl |-> "https://s.id/PerpanjangCTA_1-Tahun"]
    ELSE Null

\* A record expiring on date d with a billing e-mail address.
ReminderOrder(id, did, items, email, d) ==
    [billing_email |-> email, expiry_date |-> d] @@
    Order(id, "completed", "c9", Absent, did,
          IF did = Absent THEN Absent ELSE "1", items)

\* The stores a reminder run may start from: NumOrders records, record i with
\* the i-th id of ReminderIds, each one of the kinds below.
ReminderIds == <<"8311", "7", "8312", "9">>

ReminderKinds(id) ==
    { ReminderOrder(id, "u1", <<Membership_3_BULAN>>, "a@x", "d1"),
      ReminderOrder(id, "u1", <<Paket_12_Bulan>>, Absent, "d1"),
      ReminderOrder(id, "u2", <<Member_1_Tahun, Lifetime_Plan>>, "b@x", "d1"),
      ReminderOrder(id, "u1", <<Lifetime_Plan>>, "a@x", "d1"),
      ReminderOrder(id, Absent, <<Membership_3_BULAN>>, "c@x", "d1"),
      ReminderOrder(id, "u1", <<>>, "a@x", "d1"),
      ReminderOrder(id, "u2", <<Upgrade_3_Bulan_Ke_1_Tahun>>, "b@x", "d1"),
      ReminderOrder(id, "u1", <<Membership_3_BULAN>>, "a@x", "d2") }

ReminderStores ==
    { st \in [1..NumOrders -> UNION {ReminderKinds(ReminderIds[i]) : i \in 1..NumOrders}] :
        \A i \in 1..NumOrders : st[i].id = ReminderIds[i] }

InitReminder ==
    /\ orders \in ReminderStores
    /\ roles = [u \in Users |-> {"member"}]
    /\ env = [member |-> TRUE, lifetime |-> TRUE]
    /\ csv = <<>>
    /\ lock = 0
    /\ pc = [p \in Procs |-> "idle"]
    /\ user = [p \in Procs |-> "u1"]
    /\ uuid = [p \in Procs |-> "c1"]
    /\ webinarRows = [p \in Procs |-> <<>>]
    /\ found = [p \in Procs |-> NoOrder]
    /\ page = [p \in Procs |-> 0]
    /\ pages = [p \in Procs |-> 0]
    /\ result = [p \in Procs |-> NoResult]
    /\ atStart = [p \in Procs |-> NothingAtStart]
    /\ grants = {}
    /\ writes = {}
    /\ consulted = {}
    /\ critical = {}
    /\ outcomes = {}
    /\ ExpiryInit
    /\ ServiceInit

\* What the reminder leaves alone.
reminderFrame == <<orders, roles, env, critical, activationVars, expiryVars,
                   cronVars, apiVars, auditVars, logVars>>

\* order.id == 8311 || order.id == 8312
remindedIds == {"8311", "8312"}

Reminded(order, what, label) == [order |-> order.id, event |-> what, label |-> label]

\* sendExpiryReminderDMAndEmail(order): what it does, in order.  emailOk and
\* dmOk tell whether the mail API call and user.send resolved.
sendExpiryReminderDMAndEmail(order, emailOk, dmOk) ==
    IF Len(order.line_items) = 0
    THEN << Reminded(order, "skipped: no line item", "none") >>
    ELSE LET membership == parseMembershipDuration(order.line_items[1]) IN
         IF membership = Null
         THEN << Reminded(order, "skipped: unknown product duration", "none") >>
         ELSE (IF order.billing_email = Absent THEN <<>>
               ELSE << Reminded(order, IF emailOk THEN "email" ELSE "email failed",
                                membership.label) >>)
              \o
              (IF order.discord_id = Absent
               THEN << Reminded(order, "skipped: no discord id", "none") >>
               ELSE << Reminded(order, IF dmOk THEN "dm" ELSE "dm failed",
                                membership.label) >>)

\* cron.schedule("0 12 * * *", runExpiryReminder), or the trigger endpoint:
\* runExpiryReminder up to `await client.guilds.fetch`.
ReminderStart ==
    /\ rpc \in {"idle", "done"}
    /\ api = NoRequest
    /\ rpc' = "scan"
    /\ expiringTomorrow' = <<>>
    /\ ridx' = 0
    /\ rlog' = <<>>
    /\ rresult' = Pending
    /\ UNCHANGED reminderFrame

\* Lines 874-883: guilds.fetch and findOrdersExpiringOn(tomorrow) resolve, or
\* one of them throws and the catch returns the failure.
ReminderScan ==
    /\ rpc = "scan"
    /\ \/ /\ ~scanThrows(orders)
          /\ expiringTomorrow' = findOrdersExpiringOn(orders, DateOf(today + 1))
          /\ rpc' = "channel"
          /\ UNCHANGED rresult
       \/ /\ rpc' = "done"
          /\ rresult' = Failure("err.message")
          /\ UNCHANGED expiringTomorrow
    /\ UNCHANGED <<ridx, rlog>>
    /\ UNCHANGED reminderFrame

\* Lines 885-897: without an admin channel (unset, or not fetched as a text
\* channel) the function returns; with nothing expiring the message is sent
\* and it returns, or the send throws; otherwise the loop begins.
ReminderChannel ==
    /\ rpc = "channel"
    /\ \E channel \in {"unset", "none", "text", "throws"} :
         \/ /\ channel \in {"unset", "none"}
            /\ rpc' = "done" /\ rresult' = Undefined
            /\ UNCHANGED ridx
         \/ /\ channel = "text" /\ Len(expiringTomorrow) = 0
            /\ rpc' = "done" /\ rresult' = Undefined
            /\ UNCHANGED ridx
         \/ /\ channel = "throws" /\ Len(expiringTomorrow) = 0
            /\ rpc' = "done" /\ rresult' = Failure("err.message")
            /\ UNCHANGED ridx
         \/ /\ channel \in {"text", "throws"} /\ Len(expiringTomorrow) > 0
            /\ rpc' = "loop" /\ ridx' = 1
            /\ UNCHANGED rresult
    /\ UNCHANGED <<expiringTomorrow, rlog>>
    /\ UNCHANGED reminderFrame

\* Lines 899-915, one record: its line of the list (a flush of the list may
\* throw), and the reminder when its id is one of the two.
ReminderRecord ==
    /\ rpc = "loop"
    /\ ridx <= Len(expiringTomorrow)
    /\ LET order == expiringTomorrow[ridx] IN
       \/ /\ rpc' = "done" /\ rresult' = Failure("err.message")
          /\ UNCHANGED <<ridx, rlog>>
       \/ /\ order.id \in remindedIds
          /\ \E emailOk, dmOk \in BOOLEAN :
                rlog' = rlog \o sendExpiryReminderDMAndEmail(order, emailOk, dmOk)
          /\ ridx' = ridx + 1
          /\ UNCHANGED <<rpc, rresult>>
       \/ /\ order.id \notin remindedIds
          /\ ridx' = ridx + 1
          /\ UNCHANGED <<rpc, rresult, rlog>>
    /\ UNCHANGED expiringTomorrow
    /\ UNCHANGED reminderFrame

\* Lines 917-921: the rest of the list is sent and the count returned, or
\* the send throws.
ReminderFinish ==
    /\ rpc = "loop"
    /\ ridx > Len(expiringTomorrow)
    /\ rpc' = "done"
    /\ \/ rresult' = Success(Len(expiringTomorrow))
       \/ rresult' = Failure("err.message")
    /\ UNCHANGED <<expiringTomorrow, ridx, rlog>>
    /\ UNCHANGED reminderFrame

NextReminder ==
    \/ ReminderStart
    \/ ReminderScan
    \/ ReminderChannel
    \/ ReminderRecord
    \/ ReminderFinish

SpecReminder == InitReminder /\ [][NextReminder]_vars

\* -------------------------------------------------- claims of the reminder
\* The product names with a recognised duration, by what they contain.
NamesWith3Bulan == {Membership_3_BULAN, Upgrade_3_Bulan_Ke_1_Tahun}
NamesWith12Months == {Paket_12_Bulan, Member_1_Tahun}
RemindersOf(id) == SelectSeq(rlog, LAMBDA e : e.order = id)
Attempted(id, what) ==
    \E k \in 1..Len(rlog) :
        rlog[k].order = id /\ rlog[k].event \in {what, what \o " failed"}

\* C25 as stated: when a reminder run has returned the count of its records,
\* every record of its scan with a bound identity and a recognised product
\* name was sent the e-mail (when it has a billing address) and the direct
\* message, and every record with an unrecognised product name was skipped
\* and logged.
C25_EveryExpiringRecordReminded ==
    (rpc = "done" /\ rresult = Success(Len(expiringTomorrow))) =>
        \A k \in 1..Len(expiringTomorrow) :
            LET o == expiringTomorrow[k] IN
            Len(o.line_items) > 0 =>
                IF o.line_items[1] \in NamesWith3Bulan \cup NamesWith12Months
                THEN o.discord_id # Absent =>
                        /\ Attempted(o.id, "dm")
                        /\ o.billing_email # Absent => Attempted(o.id, "email")
                ELSE \E j \in 1..Len(rlog) :
                        /\ rlog[j].order = o.id
                        /\ rlog[j].event = "skipped: unknown product duration"

\* C26: a name containing "3 bulan" in any letter case is given the 3-month
\* label and its URL; any other name containing "1 tahun" or "12 bulan" the
\* 12-month label and its URL; every other name null.  This holds of every
\* line item in the store, and every reminder sent carries the label of the
\* first line item of its record.
C26_DurationBySubstring ==
    /\ \A i \in 1..Len(orders) : \A k \in 1..Len(orders[i].line_items) :
          LET name == orders[i].line_items[k]
              m == parseMembershipDuration(name) IN
          IF name \in NamesWith3Bulan
          THEN m = [label |-> "3 Bulan", months |-> 3,
                    renewUrl |-> "https://s.id/PerpanjangCTA_3-Bulan"]
          ELSE IF name \in NamesWith12Months
          THEN m = [label |-> "1 Tahun", months |-> 12,
                    renewUrl |-> "https://s.id/PerpanjangCTA_1-Tahun"]
          ELSE m = Null
    /\ \A j \in 1..Len(rlog) :
          LET o == RecordOf(rlog[j].order) IN
          /\ rlog[j].event \in {"email", "email failed", "dm", "dm failed"} =>
                rlog[j].label = IF o.line_items[1] \in NamesWith3Bulan
                                THEN "3 Bulan" ELSE "1 Tahun"
          /\ rlog[j].event = "skipped: unknown product duration" =>
                o.line_items[1] \notin NamesWith3Bulan \cup NamesWith12Months

C26_Witness ==
    /\ rpc = "done" /\ rresult = Success(2)
    /\ \E j, k \in 1..Len(rlog) :
          /\ rlog[j].event = "email" /\ rlog[j].label = "3 Bulan"
          /\ rlog[k].event = "dm" /\ rlog[k].label = "3 Bulan"
          /\ rlog[j].order = rlog[k].order
          /\ RecordOf(rlog[k].order).line_items[1] = Upgrade_3_Bulan_Ke_1_Tahun
    /\ \E i \in 1..Len(orders) :
          /\ orders[i].line_items = <<Paket_12_Bulan>>
          /\ parseMembershipDuration(orders[i].line_items[1]).months = 12

\* ------------------------------------------------------ the HTTP endpoints
\* req.headers['x-api-key'] and process.env.DISCORD_API_SECRET: a missing
\* header and an unset variable are both `undefined`, here Absent.
ApiKeys == {Absent, "s3cret", "wrong"}
Secrets == {Absent, "s3cret"}

\* if (authHeader !== process.env.DISCORD_API_SECRET)
unauthorized(authHeader, configured) == authHeader # configured

Request(endpoint, key, userId) == [endpoint |-> endpoint, key |-> key, user_id |-> userId]
Response(req, status, body) ==
    [endpoint |-> req.endpoint, key |-> req.key, status |-> status, body |-> body]

\* res.status(403).json({ success: false, error: "Unauthorized" })
Unauthorized == [kind |-> "error", success |-> FALSE, error |-> "Unauthorized"]
\* res.status(400).json({ success: false, error: 'user_id is required' })
MissingUserId == [kind |-> "error", success |-> FALSE, error |-> "user_id is required"]

\* Three stores: one record expiring today and one tomorrow; a record
\* expiring today whose owner has a newer one; nothing expiring.
ApiStores ==
    { << ReminderOrder("8311", "u1", <<Membership_3_BULAN>>, "a@x", "d1"),
         ReminderOrder("7", "u2", <<Paket_12_Bulan>>, "b@x", "d2") >>,
      << ReminderOrder("8311", "u1", <<Member_1_Tahun>>, "a@x", "d2"),
         ReminderOrder("7", "u1", <<Membership_3_BULAN>>, "a@x", "d1") >>,
      << ReminderOrder("8311", "u1", <<Membership_3_BULAN>>, "a@x", "d3"),
         ReminderOrder("7", "u2", <<Paket_12_Bulan>>, "b@x", "d3") >> }

\* The server is up on day 1 with or without DISCORD_API_SECRET.
InitApi ==
    /\ orders \in ApiStores
    /\ roles = [u \in Users |-> {"member"}]
    /\ env = [member |-> TRUE, lifetime |-> TRUE]
    /\ csv = <<>>
    /\ lock = 0
    /\ pc = [p \in Procs |-> "idle"]
    /\ user = [p \in Procs |-> "u1"]
    /\ uuid = [p \in Procs |-> "c1"]
    /\ webinarRows = [p \in Procs |-> <<>>]
    /\ found = [p \in Procs |-> NoOrder]
    /\ page = [p \in Procs |-> 0]
    /\ pages = [p \in Procs |-> 0]
    /\ result = [p \in Procs |-> NoResult]
    /\ atStart = [p \in Procs |-> NothingAtStart]
    /\ grants = {}
    /\ writes = {}
    /\ consulted = {}
    /\ critical = {}
    /\ outcomes = {}
    /\ today = 1
    /\ xpc = "idle"
    /\ expiringOrders = <<>>
    /\ idx = 0
    /\ activeOrder = NoOrder
    /\ removal = NoRemoval
    /\ xlog = <<>>
    /\ xresult = Pending
    /\ CronInit
    /\ ReminderInit
    /\ secret \in Secrets
    /\ api = NoRequest
    /\ response = NoRequest
    /\ served = 0
    /\ AuditInit
    /\ LogInit

\* What a request handler leaves alone before its operation starts.
apiFrame == <<orders, roles, env, critical, activationVars, cronVars, auditVars,
              logVars, secret>>

\* No request is being served and no job is running.
Quiet ==
    /\ api = NoRequest
    /\ xpc \in {"idle", "done"}
    /\ rpc \in {"idle", "done"}
    /\ served < MaxRequests

\* The 403 of a handler.
Refuse(req) ==
    /\ response' = Response(req, 403, Unauthorized)
    /\ served' = served + 1
    /\ UNCHANGED api

\* app.post('/run-expiry-check') up to the first await inside
\* runExpiryCheck.
RequestExpiryCheck(key) ==
    /\ Quiet
    /\ LET req == Request("run-expiry-check", key, Absent) IN
       \/ /\ unauthorized(key, secret)
          /\ Refuse(req)
          /\ UNCHANGED expiryVars
       \/ /\ ~unauthorized(key, secret)
          /\ api' = req
          /\ xpc' = "scan"
          /\ expiringOrders' = <<>>
          /\ idx' = 0
          /\ activeOrder' = NoOrder
          /\ removal' = NoRemoval
          /\ xresult' = Pending
          /\ UNCHANGED <<today, xlog, response, served>>
    /\ UNCHANGED reminderVars
    /\ UNCHANGED apiFrame

\* res.json(result) of the run-expiry-check handler.
RespondExpiryCheck ==
    /\ api.endpoint = "run-expiry-check"
    /\ xpc = "done"
    /\ response' = Response(api, 200, xresult)
    /\ api' = NoRequest
    /\ served' = served + 1
    /\ UNCHANGED <<expiryVars, reminderVars>>
    /\ UNCHANGED apiFrame

\* app.post('/run-expiry-reminder') up to the first await inside
\* runExpiryReminder.
RequestExpiryReminder(key) ==
    /\ Quiet
    /\ LET req == Request("run-expiry-reminder", key, Absent) IN
       \/ /\ unauthorized(key, secret)
          /\ Refuse(req)
          /\ UNCHANGED reminderVars
       \/ /\ ~unauthorized(key, secret)
          /\ api' = req
          /\ rpc' = "scan"
          /\ expiringTomorrow' = <<>>
          /\ ridx' = 0
          /\ rlog' = <<>>
          /\ rresult' = Pending
          /\ UNCHANGED <<response, served>>
    /\ UNCHANGED expiryVars
    /\ UNCHANGED apiFrame

\* res.json(result) of the run-expiry-reminder handler.
RespondExpiryReminder ==
    /\ api.endpoint = "run-expiry-reminder"
    /\ rpc = "done"
    /\ response' = Response(api, 200, rresult)
    /\ api' = NoRequest
    /\ served' = served + 1
    /\ UNCHANGED <<expiryVars, reminderVars>>
    /\ UNCHANGED apiFrame

\* app.post('/mod/remove') up to `await client.guilds.fetch`.
RequestModRemove(key, userId) ==
    /\ Quiet
    /\ LET req == Request("mod/remove", key, userId) IN
       \/ /\ unauthorized(key, secret)
          /\ Refuse(req)
       \/ /\ ~unauthorized(key, secret)
          /\ userId = Absent
          /\ response' = Response(req, 400, MissingUserId)
          /\ served' = served + 1
          /\ UNCHANGED api
       \/ /\ ~unauthorized(key, secret)
          /\ userId # Absent
          /\ api' = req
          /\ UNCHANGED <<response, served>>
    /\ UNCHANGED <<expiryVars, reminderVars>>
    /\ UNCHANGED apiFrame

\* The rest of the mod/remove handler: removeMember and res.json(result), or
\* guilds.fetch throws and the catch answers 500.
RespondModRemove ==
    /\ api.endpoint = "mod/remove"
    /\ \/ \E fetched \in {"member", "null", "throws"}, removeOk \in BOOLEAN :
            LET u == api.user_id
                r == removeMember(roles[u], fetched, env.member, removeOk) IN
            /\ roles' = [roles EXCEPT ![u] = r.roles]
            /\ critical' = IF r.alert
                           THEN logCritical(critical, <<today, u>>,
                                            "Membership Role Removal Failed")
                           ELSE critical
            /\ response' = Response(api, 200, [kind |-> "removal"] @@ r.result)
       \/ /\ response' = Response(api, 500,
                                  [kind |-> "error", success |-> FALSE,
                                   error |-> "err.message"])
          /\ UNCHANGED <<roles, critical>>
    /\ api' = NoRequest
    /\ served' = served + 1
    /\ UNCHANGED <<orders, env, activationVars, cronVars, auditVars, logVars,
                   secret, expiryVars, reminderVars>>

NextApi ==
    \/ \E key \in ApiKeys : RequestExpiryCheck(key)
    \/ \E key \in ApiKeys : RequestExpiryReminder(key)
    \/ \E key \in ApiKeys, userId \in Users \cup {Absent} : RequestModRemove(key, userId)
    \/ RespondExpiryCheck
    \/ RespondExpiryReminder
    \/ RespondModRemove
    \/ ExpiryScan
    \/ ExpiryAdminLog
    \/ ExpiryNext
    \/ ExpiryRenewal
    \/ ExpiryRemove
    \/ ExpiryMark
    \/ ReminderScan
    \/ ReminderChannel
    \/ ReminderRecord
    \/ ReminderFinish

SpecApi == InitApi /\ [][NextApi]_vars

\* ------------------------------------------------- claims of the endpoints
\* The key of a request is missing, or differs from the configured secret.
BadKey(key) == key = Absent \/ key # secret

\* C27 as stated: a request to one of the three endpoints whose x-api-key is
\* missing or differs from the secret is answered 403 and its operation is
\* never started, with the secret configured or not.
C27_BadKeyAlwaysRefused ==
    /\ (response # NoRequest /\ BadKey(response.key)) => response.status = 403
    /\ api # NoRequest => ~BadKey(api.key)

\* C28 as stated: the answer to an authorised run-expiry-check or
\* run-expiry-reminder request is the structured result, the success flag
\* with the count or the error.
C28_StructuredResultOnEveryPath ==
    (/\ response # NoRequest
     /\ response.endpoint \in {"run-expiry-check", "run-expiry-reminder"}
     /\ response.status = 200)
        => /\ response.body.kind = "result"
           /\ response.body \in {Success(n) : n \in 0..Len(orders)}
                                    \cup {Failure("err.message")}

\* ------------------------------------------------ appendBotLog, logCritical
\* A line of the bot log file.
LogLine(level, message) == [level |-> level, message |-> message]

\* appendBotLog without its try/catch.
appendBotLogUnguarded(writable, log, out, level, message) ==
    IF writable
    THEN [botlog |-> log \cup {LogLine(level, message)}, console |-> out, threw |-> FALSE]
    ELSE [botlog |-> log, console |-> out, threw |-> TRUE]

\* appendBotLog(level, message, data) on the log file `log` and the console
\* `out`; writable tells whether JSON.stringify and fs.appendFileSync
\* succeed.  The value is the file and console afterwards and whether an
\* exception left the function.
appendBotLog(writable, log, out, level, message) ==
    IF writable
    THEN [botlog |-> log \cup {LogLine(level, message)}, console |-> out, threw |-> FALSE]
    ELSE [botlog |-> log, console |-> out \cup {"Failed to write bot log:"},
          threw |-> FALSE]

\* The messages of the callers, and the titles of their alerts.
LogMessages ==
    { LogLine("INFO", "Running expiry reminder"),
      LogLine("WARN", "Reminder skipped - unknown product duration"),
      LogLine("ERROR", "Error in /run-expiry-check endpoint") }
CriticalTitles == {"Mark Order Finished Failed", "Expiry Job Critical Error"}

\* ADMIN_LOG_CHANNEL_ID: unset (or the client not logged in); naming a channel
\* that is not fetched or not text based; one whose use throws; a text channel.
LogChannels == {"unset", "none", "throws", "text"}

InitLog ==
    /\ orders \in ApiStores
    /\ roles = [u \in Users |-> {"member"}]
    /\ env = [member |-> TRUE, lifetime |-> TRUE]
    /\ csv = <<>>
    /\ lock = 0
    /\ pc = [p \in Procs |-> "idle"]
    /\ user = [p \in Procs |-> "u1"]
    /\ uuid = [p \in Procs |-> "c1"]
    /\ webinarRows = [p \in Procs |-> <<>>]
    /\ found = [p \in Procs |-> NoOrder]
    /\ page = [p \in Procs |-> 0]
    /\ pages = [p \in Procs |-> 0]
    /\ result = [p \in Procs |-> NoResult]
    /\ atStart = [p \in Procs |-> NothingAtStart]
    /\ grants = {}
    /\ writes = {}
    /\ consulted = {}
    /\ critical = {}
    /\ outcomes = {}
    /\ ExpiryInit
    /\ CronInit
    /\ ReminderInit
    /\ ApiInit
    /\ AuditInit
    /\ sinks \in [file : BOOLEAN, channel : LogChannels]
    /\ botlog = {}
    /\ console = {}
    /\ alerts = {}
    /\ logpc = [at |-> "idle", title |-> "none"]

\* What logging leaves alone.
logFrame == <<orders, roles, env, critical, activationVars, expiryVars, cronVars,
              reminderVars, apiVars, auditVars, sinks>>

\* Where the caller is after a call of appendBotLog.
After(r, at, title) ==
    /\ botlog' = r.botlog
    /\ console' = r.console
    /\ logpc' = [at |-> IF r.threw THEN "threw" ELSE at, title |-> title]

\* A caller calls appendBotLog(level, message).
AppendBotLog(line) ==
    /\ logpc.at = "idle"
    /\ After(appendBotLog(sinks.file, botlog, console, line.level, line.message),
             "returned", "none")
    /\ UNCHANGED alerts
    /\ UNCHANGED logFrame

\* A caller calls logCritical(title): lines 37-39, up to channels.fetch.
LogCritical(title) ==
    /\ logpc.at = "idle"
    /\ After(appendBotLog(sinks.file, botlog, console, "CRITICAL", title),
             IF sinks.channel = "unset" THEN "returned" ELSE "fetch", title)
    /\ UNCHANGED alerts
    /\ UNCHANGED logFrame

\* Lines 40-48: the channel is null or not text based and the function
\* returns; or building the alert throws and the catch logs it; or the alert
\* is handed to channel.send.
LogCriticalFetch ==
    /\ logpc.at = "fetch"
    /\ \/ /\ sinks.channel = "none"
          /\ logpc' = [logpc EXCEPT !.at = "returned"]
          /\ UNCHANGED <<botlog, console>>
       \/ /\ sinks.channel = "throws"
          /\ After(appendBotLog(sinks.file, botlog, console, "ERROR",
                                "Failed to send critical alert to Discord"),
                   "returned", logpc.title)
       \/ /\ sinks.channel = "text"
          /\ logpc' = [logpc EXCEPT !.at = "send"]
          /\ UNCHANGED <<botlog, console>>
    /\ UNCHANGED alerts
    /\ UNCHANGED logFrame

\* Line 49: channel.send resolves, or rejects and `.catch(() => null)`
\* swallows it.
LogCriticalSend ==
    /\ logpc.at = "send"
    /\ \/ alerts' = alerts \cup {logpc.title}
       \/ UNCHANGED alerts
    /\ logpc' = [logpc EXCEPT !.at = "returned"]
    /\ UNCHANGED <<botlog, console>>
    /\ UNCHANGED logFrame

\* The caller goes on after the call.
LogReturn ==
    /\ logpc.at = "returned"
    /\ logpc' = [at |-> "idle", title |-> "none"]
    /\ UNCHANGED <<botlog, console, alerts>>
    /\ UNCHANGED logFrame

NextLog ==
    \/ \E line \in LogMessages : AppendBotLog(line)
    \/ \E title \in CriticalTitles : LogCritical(title)
    \/ LogCriticalFetch
    \/ LogCriticalSend
    \/ LogReturn

SpecLog == InitLog /\ [][NextLog]_vars

\* ---------------------------------------------------- claims of the logging
\* C30: no call of appendBotLog or logCritical ends in an exception; and in
\* no step of either is anything changed but the log file, the console and
\* the alerts delivered, a failed write adding nothing to the file and its
\* report to the console, a failed delivery adding nothing to the alerts.
C30_LoggingNeverThrows ==
    /\ [](logpc.at # "threw")
    /\ [][ /\ UNCHANGED <<orders, roles, env, csv, lock, result, xresult, rresult,
                         response>>
           /\ ~sinks.file => /\ botlog' = botlog
                             /\ (logpc.at = "idle" /\ logpc'.at # "idle")
                                   => /\ console' = {"Failed to write bot log:"}
                                      /\ logpc'.at \in {"returned", "fetch"}
           /\ sinks.file => console' = console
           /\ sinks.channel # "text" => alerts' = alerts
           /\ logpc.at = "returned" => logpc'.at = "idle" ]_vars

C30_Witness ==
    /\ logpc = [at |-> "returned", title |-> "Mark Order Finished Failed"]
    /\ ~sinks.file
    /\ sinks.channel = "throws"
    /\ botlog = {}
    /\ alerts = {}
    /\ console = {"Failed to write bot log:"}

\* ----------------------------------------------- the replies to the user
\* The switch of the messageCreate handler on result.code (direct message).
dmReply(res) ==
    IF res.success
    THEN "Activation successful - your role has been granted. Welcome!"
    ELSE IF res.code \in {"NOT_FOUND", "ALREADY_USED"}
    THEN "No valid order found for that code, or it has already been used. If you believe this is an error, contact support."
    ELSE IF res.code = "NOT_IN_GUILD"
    THEN "Please join the server using the permanent invite link first, then run /activate {UUID} again."
    ELSE IF res.code = "NO_ROLE_CONFIG"
    THEN "Server role is not configured (MEMBER_ROLE_ID). Contact the admins."
    ELSE IF res.code = "WC_UPDATE_FAILED"
    THEN "Activation succeeded but failed to persist to WooCommerce. Admins have been alerted."
    ELSE "An error occurred while activating your code. Please try again later or contact support."

\* The tests of the interactionCreate handler on result.code (modal form).
formReply(res) ==
    IF res.success
    THEN "Activation successful - your role has been granted. Welcome!"
    ELSE IF res.code \in {"NOT_FOUND", "ALREADY_USED"}
    THEN "No valid order found for that code, or it has already been used."
    ELSE IF res.code = "NOT_IN_GUILD"
    THEN "You must join the server first before activating."
    ELSE IF res.code = "NO_ROLE_CONFIG"
    THEN "Server not configured correctly. Contact admins."
    ELSE IF res.code = "WC_UPDATE_FAILED"
    THEN "Activation succeeded but failed to persist to WooCommerce. Admins have been alerted."
    ELSE "An error occurred while activating your code. Please try again later."

\* Four stores of two records.  The first record carries c2 and is retired
\* with is_old "1", retired with is_old "true", or claimed by u0; in the
\* fourth store no record carries c2.  The record retired with "1" holds a
\* lifetime product.
ReplyStores ==
    { << Order("1", "completed", "c2", "1", Absent, Absent,
               <<Member_1_Tahun, Annual_LIFETIME_Bundle>>),
         Order("2", "completed", "c1", Absent, Absent, Absent, <<Member_1_Tahun>>) >>,
      << Order("1", "completed", "c2", "true", Absent, Absent, <<Member_1_Tahun>>),
         Order("2", "completed", "c1", Absent, Absent, Absent, <<Member_1_Tahun>>) >>,
      << Order("1", "completed", "c2", Absent, "u0", "1", <<Member_1_Tahun>>),
         Order("2", "completed", "c1", Absent, Absent, Absent, <<Member_1_Tahun>>) >>,
      << Order("1", "completed", "c1", Absent, Absent, Absent, <<Member_1_Tahun>>),
         Order("2", "processing", "c1", Absent, Absent, Absent, <<Member_1_Tahun>>) >> }

InitReply ==
    /\ orders \in ReplyStores
    /\ csv \in Ledgers
    /\ env = [member |-> TRUE, lifetime |-> TRUE]
    /\ ProcInit

SpecReply == InitReply /\ [][Next]_vars

\* ---------------------------------------------------- claims of the replies
\* What holds of code c: its ledger row was used by u0; it has no ledger row
\* and its first record in the store is retired, or was claimed by u0, or
\* there is none.  u0 sends no request and no activation retires a record or
\* adds one, so what holds now held when every request began.
RowUsedByOther(c) ==
    \E i \in 1..Len(csv) : csv[i][1] = c /\ UsedRow(csv[i]) /\ Cells(csv[i])[4] = "u0"
NoRow(c) == \A i \in 1..Len(csv) : csv[i][1] # c
MatchesNothing(c) == NoRow(c) /\ FirstMatch(orders, c) = 0
OrderRetired(c) ==
    /\ NoRow(c) /\ FirstMatch(orders, c) # 0
    /\ Retired(orders[FirstMatch(orders, c)])
OrderClaimedByOther(c) ==
    /\ NoRow(c) /\ FirstMatch(orders, c) # 0
    /\ orders[FirstMatch(orders, c)].discord_id = "u0"
Unclaimable(c) ==
    RowUsedByOther(c) \/ MatchesNothing(c) \/ OrderRetired(c) \/ OrderClaimedByOther(c)

\* C31 as stated: a request for a code that matches nothing, whose order is
\* retired or already claimed, or whose ledger row is used, is answered with
\* the same reply in the direct message and the same reply in the form,
\* whichever of the four holds (the reply to an unexpected error aside).
C31_SameReplyForUnclaimableCodes ==
    \A p \in Procs :
        (Returned(p) /\ Unclaimable(uuid[p])) =>
            /\ dmReply(result[p]) \in {dmReply(Result(FALSE, "NOT_FOUND", "null")),
                                       dmReply(Result(FALSE, "ERROR", "null"))}
            /\ formReply(result[p]) \in {formReply(Result(FALSE, "NOT_FOUND", "null")),
                                         formReply(Result(FALSE, "ERROR", "null"))}

\* The same with the records retired by is_old "1" left out.
RepliesSameButForIsOld1 ==
    \A p \in Procs :
        (/\ Returned(p) /\ Unclaimable(uuid[p])
         /\ ~(OrderRetired(uuid[p]) /\ orders[FirstMatch(orders, uuid[p])].is_old = "1")) =>
            /\ dmReply(result[p]) \in {dmReply(Result(FALSE, "NOT_FOUND", "null")),
                                       dmReply(Result(FALSE, "ERROR", "null"))}
            /\ formReply(result[p]) \in {formReply(Result(FALSE, "NOT_FOUND", "null")),
                                         formReply(Result(FALSE, "ERROR", "null"))}

\* ------------------------------------- more claims of the expiry check
\* C32 as stated: whatever became of the list for the admin channel, when a
\* run is over every record its scan found with a bound identity has been
\* dealt with by the loop.
C32_AdminChannelNeverBlocksReconciliation ==
    xpc = "done" =>
        \A j \in 1..Len(expiringOrders) :
            expiringOrders[j].discord_id # Absent =>
                Len(EventsOf(expiringOrders[j].id)) >= 1

\* C33: the step of the loop at a record without discord_id changes no
\* record and no role and leaves the loop at the next record; such a record
\* is, for the rest of the run, as the scan returned it, with no revocation
\* or marking recorded for it; and a run that went through its loop has dealt
\* with every record that follows it.
C33_NoIdentityRecordSkipped ==
    /\ [][(xpc = "loop" /\ idx <= Len(expiringOrders)
           /\ CurrentOrder.discord_id = Absent) =>
             /\ orders' = orders
             /\ roles' = roles
             /\ critical' = critical
             /\ xpc' = "loop" /\ idx' = idx + 1
             /\ expiringOrders' = expiringOrders]_vars
    /\ [](\A j \in 1..Len(expiringOrders) :
            expiringOrders[j].discord_id = Absent =>
                /\ RecordOf(expiringOrders[j].id) = expiringOrders[j]
                /\ \A k \in 1..Len(EventsOf(expiringOrders[j].id)) :
                      EventsOf(expiringOrders[j].id)[k].event = "no_identity"
                /\ LoopDone =>
                      \A i \in j..Len(expiringOrders) :
                          Len(EventsOf(expiringOrders[i].id)) >= 1)

C33_Witness ==
    /\ LoopDone
    /\ Len(expiringOrders) >= 2
    /\ expiringOrders[1].discord_id = Absent
    /\ RecordOf(expiringOrders[1].id).status = "completed"
    /\ \E k \in 1..Len(xlog) :
          /\ k > 1
          /\ xlog[k - 1].day = today /\ xlog[k - 1].event = "no_identity"
          /\ xlog[k - 1].order = expiringOrders[1].id
          /\ xlog[k].day = today /\ xlog[k].event = "revoked"
          /\ xlog[k].order = expiringOrders[2].id

\* ------------------------------------ more claims of the activation
\* C34: a request whose result is NOT_FOUND, ALREADY_USED, NOT_IN_GUILD or
\* NO_ROLE_CONFIG has added no role and written neither the ledger nor the
\* store; a request that queried the order store and ended with ERROR (its
\* member role grant, or a call before it, failed) has written neither; so
\* what the code names is as these requests found it.
C34_FailedActivationChangesNothing ==
    \A p \in Procs :
        /\ (pc[p] \in {"audit", "done"}
            /\ result[p].code \in {"NOT_FOUND", "ALREADY_USED", "NOT_IN_GUILD",
                                   "NO_ROLE_CONFIG"}) =>
              /\ GrantsBy(p) = {}
              /\ WritesBy(p) = {}
              /\ ~result[p].success
        /\ (pc[p] \in {"audit", "done"} /\ result[p].code = "ERROR"
            /\ p \in consulted) =>
              /\ WritesBy(p) = {}
              /\ GrantsBy(p) = {}

\* A request that was refused for not being in the guild, and a later one
\* for the same code that succeeded.
C34_Witness ==
    \E p, q \in Procs :
        /\ p < q
        /\ Returned(p) /\ result[p].code = "NOT_IN_GUILD" /\ p \in consulted
        /\ Returned(q) /\ result[q].code = "OK" /\ uuid[q] = uuid[p]
        /\ user[q] = user[p]
        /\ GrantsBy(p) = {} /\ GrantsBy(q) # {}
        /\ WritesBy(q) = {<<q, "order">>}

\* C35 as stated: a request that returned NO_ROLE_CONFIG has raised a
\* critical alert.
C35_MissingRoleConfigEscalated ==
    \A p \in Procs :
        (Returned(p) /\ result[p].code = "NO_ROLE_CONFIG") =>
            \E c \in critical : c[1] = CallerOf(p)

\* ------------------------------- an activation beside an expiry check
\* u1 holds the member role by record 2 (A), which expires on day 1, and
\* submits c2, the code of record 1 (B), which nobody has claimed; B stands
\* before A in the store.  One request, and the daily checks.
RecordB ==
    [expiry_date |-> "d9"] @@
    Order("1", "completed", "c2", Absent, Absent, Absent, <<Member_1_Tahun>>)
RecordA == ExpiryOrder("2", "completed", Absent, "u1", "d1")

InitRace ==
    /\ orders = <<RecordB, RecordA>>
    /\ roles = [u \in Users |-> IF u = "u1" THEN {"member"} ELSE {}]
    /\ env = [member |-> TRUE, lifetime |-> TRUE]
    /\ csv = <<WebinarLine("c1", "False", "")>>
    /\ lock = 0
    /\ pc = [p \in Procs |-> IF p = 1 THEN "idle" ELSE "done"]
    /\ user = [p \in Procs |-> "u1"]
    /\ uuid = [p \in Procs |-> "c1"]
    /\ webinarRows = [p \in Procs |-> <<>>]
    /\ found = [p \in Procs |-> NoOrder]
    /\ page = [p \in Procs |-> 0]
    /\ pages = [p \in Procs |-> 0]
    /\ result = [p \in Procs |-> NoResult]
    /\ atStart = [p \in Procs |-> NothingAtStart]
    /\ grants = {}
    /\ writes = {}
    /\ consulted = {}
    /\ critical = {}
    /\ outcomes = {}
    /\ ExpiryInit
    /\ ServiceInit

NextRace ==
    \/ Start(1, "u1", "c2")
    \/ AcquireLock(1)
    \/ FindTotal(1)
    \/ FindPage(1)
    \/ OrderMemberFetch(1)
    \/ OrderAddMember(1)
    \/ OrderUpdate(1)
    \/ Audit(1)
    \/ ExpiryStart
    \/ ExpiryScan
    \/ ExpiryAdminLog
    \/ ExpiryNext
    \/ ExpiryRenewal
    \/ ExpiryRemove
    \/ ExpiryMark

SpecRace == InitRace /\ [][NextRace]_vars

\* The request and a check have both finished; X holds the member role; X is
\* bound to a completed record that is not retired.
BothFinished == Returned(1) /\ xpc = "done" /\ today >= 1
HoldsMemberRole(u) == "member" \in roles[u]
BoundToLiveRecord(u) ==
    \E i \in 1..Len(orders) :
        /\ orders[i].discord_id = u /\ orders[i].status = "completed"
        /\ ~Retired(orders[i])
HasEvent(what) == \E k \in 1..Len(xlog) : xlog[k].event = what

ResultCodes ==
    {"OK", "NOT_FOUND", "ALREADY_USED", "NOT_IN_GUILD", "NO_ROLE_CONFIG",
     "WC_UPDATE_FAILED", "ERROR"}

C37_AlwaysAClassifiedOutcome ==
    /\ \A p \in Procs :
          IF pc[p] \in {"audit", "done"}
          THEN /\ result[p].code \in ResultCodes
               /\ result[p].success <=> result[p].code = "OK"
               /\ result[p].code = "ERROR" => result[p].orderId = "null"
          ELSE result[p].code = "UNKNOWN" /\ ~result[p].success
    /\ \A o \in outcomes : o.code \in ResultCodes
    /\ \A p \in Procs : Returned(p) => \E o \in outcomes : o.request = p

C37_Witness ==
    \E p, q \in Procs :
        /\ Returned(p) /\ result[p].code = "ERROR" /\ ~result[p].success
        /\ p \in consulted
        /\ Returned(q) /\ result[q].code = "OK" /\ result[q].success
        /\ pc[q] = "done"

\* What an OK result promises of request p in a state: its identity holds
\* the member role; the record it names carries activation_used and the
\* discord_id of the caller; or the ledger row of its code is used and
\* carries the discord_id of the caller, who holds the lifetime role too.
BoundAsPromised(p, res, store, ledger, held) ==
    /\ "member" \in held[user[p]]
    /\ IF res.orderId = "WEBINAR"
       THEN /\ \E i \in 1..Len(ledger) :
                  /\ Cells(ledger[i])[1] = uuid[p]
                  /\ UsedRow(ledger[i])
                  /\ Cells(ledger[i])[4] = user[p]
            /\ "lifetime" \in held[user[p]]
       ELSE \E i \in 1..Len(store) :
                  /\ store[i].id = res.orderId
                  /\ store[i].activation_used # Absent
                  /\ store[i].discord_id = user[p]

\* C38 as stated: at the return of an activation with OK the identity holds
\* the member role and the claimed record is bound to it.
C38_OkMeansGrantedAndBound ==
    [][\A p \in Procs :
         (pc[p] = "audit" /\ pc'[p] = "done" /\ result[p].code = "OK") =>
             BoundAsPromised(p, result'[p], orders', csv', roles')]_vars

\* The same at the step that sets the OK result.
OkSetMeansGrantedAndBound ==
    [][\A p \in Procs :
         (result[p].code # "OK" /\ result'[p].code = "OK") =>
             BoundAsPromised(p, result'[p], orders', csv', roles')]_vars

\* C39: a failing query for the active order of a record raises the Expiry
\* Check Error alert for that record, changes no record and no role, and
\* leaves the loop at the next record; and in a run that went through its
\* loop every record after one that failed has been dealt with.
C39_RecordErrorConfined ==
    /\ [][(Len(xlog') > Len(xlog) /\ xlog'[Len(xlog')].event = "error") =>
             /\ xlog'[Len(xlog')].order = CurrentOrder.id
             /\ <<Caller, "Expiry Check Error">> \in critical'
             /\ orders' = orders /\ roles' = roles
             /\ expiringOrders' = expiringOrders
             /\ xpc' = "loop" /\ idx' = idx + 1
             /\ xresult' = xresult]_vars
    /\ [](\A j \in 1..Len(expiringOrders) :
            (\E k \in 1..Len(EventsOf(expiringOrders[j].id)) :
                EventsOf(expiringOrders[j].id)[k].event = "error") =>
                /\ xresult # Failure("err.message")
                /\ <<<<today, expiringOrders[j].id>>, "Expiry Check Error">> \in critical
                /\ LoopDone =>
                      /\ xresult = Success(Len(expiringOrders))
                      /\ \A i \in j..Len(expiringOrders) :
                            expiringOrders[i].discord_id # Absent =>
                                Len(EventsOf(expiringOrders[i].id)) >= 1)

C39_Witness ==
    /\ LoopDone
    /\ Len(expiringOrders) >= 2
    /\ \E k \in 1..Len(xlog) :
          /\ k + 2 <= Len(xlog)
          /\ xlog[k].day = today /\ xlog[k].event = "error"
          /\ xlog[k].order = expiringOrders[1].id
          /\ xlog[k + 1].day = today /\ xlog[k + 1].event = "revoked"
          /\ xlog[k + 1].order = expiringOrders[2].id
          /\ xlog[k + 2].event = "marked"
          /\ Finished(RecordOf(expiringOrders[2].id))
    /\ RecordOf(expiringOrders[1].id) = expiringOrders[1]


\* A completed record that is not old and whose expiry_date is no date.
Unparsable(o) ==
    /\ o.status = "completed" /\ ~isOld(o.is_old)
    /\ o.expiry_date # Absent /\ invalidDate(o.expiry_date)

\* A completed record that is not old and expires on the given day.
MatchesDay(o, day) ==
    /\ o.status = "completed" /\ ~isOld(o.is_old)
    /\ o.expiry_date # Absent /\ ~invalidDate(o.expiry_date)
    /\ expiryIso(o.expiry_date) = DateOf(day)

\* C40: when the store holds a completed record that is not old and whose
\* expiry_date is no date, a scan in which neither the guild nor the store
\* failed still returns every completed record that is not old and expires
\* today.
C40_UnparsableDateSkipped ==
    [][(/\ xpc = "scan" /\ xpc' # "scan"
        /\ xresult' # Failure("err.message")
        /\ \E i \in 1..Len(orders) : Unparsable(orders[i])) =>
          \A i \in 1..Len(orders) :
              MatchesDay(orders[i], today) =>
                  \E j \in 1..Len(expiringOrders') :
                      expiringOrders'[j].id = orders[i].id]_vars

\* The unparsable date is what ends the scan: the run fails with the range
\* error and has reconciled nothing, and without such a record every scan
\* that did not fail returns exactly the records that expire today.
UnparsableDateAbortsScan ==
    [][(xpc = "scan" /\ xpc' # "scan" /\ xresult' # Failure("err.message")) =>
          IF \E i \in 1..Len(orders) : Unparsable(orders[i])
          THEN /\ xpc' = "done"
               /\ xresult' = Failure("Invalid time value")
               /\ <<Job, "Expiry Job Critical Error">> \in critical'
               /\ expiringOrders' = expiringOrders
               /\ orders' = orders /\ roles' = roles /\ xlog' = xlog
          ELSE /\ xpc' = "adminlog"
               /\ \A i \in 1..Len(orders) :
                      MatchesDay(orders[i], today) <=>
                          \E j \in 1..Len(expiringOrders') :
                              expiringOrders'[j].id = orders[i].id]_vars

====
